---- MODULE Spec2Model ----
(***************************************************************************)
(* A model of the biolookup resolution core: the Backend contract, its     *)
(* three storage variants (MemoryBackend, RawSQLBackend, RemoteBackend)    *)
(* and the shared lookup algorithm of Backend.lookup.                      *)
(*                                                                         *)
(* Python values are modelled as follows.  An Optional[str] is a string,   *)
(* with the string None standing for Python's None (no stored value is     *)
(* spelled that way).  Lists are sequences, dicts are functions.  A value  *)
(* handed back to the caller of an operation is tagged with its Python     *)
(* type (PyNone, PyStr, PyInt, ...), so that None and 0, or None and the   *)
(* empty list, are different values.                                       *)
(***************************************************************************)
EXTENDS Integers, Sequences, FiniteSets, TLC

VARIABLES
    variant,    \* the concrete class and construction mode of the backend
    mem,        \* MemoryBackend: the mapping providers and summary functions
    db,         \* RawSQLBackend: the tables behind the engine
    pc,         \* position of the caller: "idle" or "done" (a call returned)
    call,       \* the operation last invoked, with its arguments
    outcome,    \* "none", "returned" or "raised"
    ret,        \* the tagged value returned, or the exception raised
    getters,    \* the primitive getters the last lookup invoked, in order
    http,       \* RemoteBackend: the HTTP requests of the last lookup, in order
    thread,     \* RawSQLBackend under concurrent callers: each caller's call
    lru,        \* the lru_cache of each memoized RawSQLBackend function
    held,       \* the connections checked out of each instance's engine
    returned,   \* the calls that have returned so far, with the value
    ncalls,     \* the number of calls the concurrent callers have started
    source,     \* loading a mapping: "df" (a table) or "path" (a gzip TSV file)
    records,    \* the (prefix, identifier, value) rows of the table or file
    lpc,        \* position of the loader: "idle", "loop", "returned", "raised"
    lineno,     \* the index of the next row or line the loader's loop reads
    mapping,    \* the loader's local lookup prefix -> identifier -> value
    config,     \* api: the sqlalchemy_uri pystow finds configured, or None
    default_backend, \* api: the lru_cache of _get_default_backend
    made,       \* api: the number of backend instances constructed so far
    selected,   \* api: what each _get_default_backend call so far gave
    api         \* api: the last api.lookup call

\* the state of the concurrent RawSQLBackend callers
sqlvars == <<thread, lru, held, returned, ncalls>>

\* the state of a loader of a mapping
loadvars == <<source, records, lpc, lineno, mapping>>

\* the state of the module-level functions of api.py
apivars == <<config, default_backend, made, selected, api>>

vars == <<variant, mem, db, pc, call, outcome, ret, getters, http,
          thread, lru, held, returned, ncalls,
          source, records, lpc, lineno, mapping,
          config, default_backend, made, selected, api>>

-----------------------------------------------------------------------------
(* Bounds and universes *)

\* the largest number of alternate-id rows of a dataset
MaxAlts == 2

\* local identifiers
Ids == {"1", "2", "3"}

\* prefixes a dataset may hold records for
DataPrefixes == {"go", "hgnc"}

None == "None"

EmptyMap == [x \in {} |-> None]

-----------------------------------------------------------------------------
(* Python values handed back to a caller *)

PyNone == [t |-> "None"]

PyStr(s) == IF s = None THEN PyNone ELSE [t |-> "str", s |-> s]

PyInt(n) == [t |-> "int", n |-> n]

PyBool(b) == [t |-> "bool", b |-> b]

PyList(l) == [t |-> "list", l |-> l]

PyDict(d) == [t |-> "dict", d |-> d]

PyExc(e) == [t |-> "exception", e |-> e]

\* the test "is not None" in place of truthiness
TruthyStr_is_not_None(s) == s # None

\* Python truthiness of an Optional[str]: None and "" are falsy
TruthyStr(s) == s # None /\ s # ""

\* Python truthiness of a list
TruthyList(l) == Len(l) > 0

RECURSIVE SumOver(_, _)
\* sum(mapping.values()) restricted to the keys in S
SumOver(f, S) ==
    IF S = {} THEN 0
    ELSE LET k == CHOOSE x \in S : TRUE
         IN f[k] + SumOver(f, S \ {k})

\* sum(mapping.values())
SumValues(f) == SumOver(f, DOMAIN f)

\* dict.get(key, default)
DictGet(d, k, default) == IF k \in DOMAIN d THEN d[k] ELSE default

-----------------------------------------------------------------------------
(* The datasets a backend can be constructed over *)

\* a name, unique to its (prefix, identifier)
NameOf(p, i) == "name_" \o p \o "_" \o i

\* partial maps alternate id -> primary id with at most MaxAlts rows; no id
\* is listed as its own alternate
AltMaps ==
    UNION { { f \in [S -> Ids] : \A a \in S : f[a] # a }
            : S \in { T \in SUBSET Ids : Cardinality(T) <= MaxAlts } }

\* a mapping prefix -> identifier -> value, as _get_lookup_from_df builds it:
\* a prefix is a key iff it has an entry
Lookup2(f) == [ p \in { q \in DOMAIN f : DOMAIN f[q] # {} } |-> f[p] ]

\* the names of a dataset: the identifiers goIds of go and hgncIds of hgnc
DataNames(goIds, hgncIds) ==
    [ p \in DataPrefixes |->
        [ i \in (IF p = "go" THEN goIds ELSE hgncIds) |-> NameOf(p, i) ] ]

\* the alternate ids of a dataset, all under go
DataAlts(alts) == [ p \in {"go"} |-> alts ]

\* the attribute fixtures: "none" stores no attribute, "full" stores some
\* for each kind; texts says whether free text may be empty (a dataframe
\* may hold an empty string, a COPY into a NOT NULL column may not)
DataDefs(fixture, texts) ==
    IF fixture = "none" THEN [ p \in DataPrefixes |-> EmptyMap ]
    ELSE [ p \in DataPrefixes |->
            IF p = "go"
            THEN [ i \in (IF texts THEN {"1", "2"} ELSE {"1"}) |->
                     IF i = "1" THEN "def_go_1" ELSE "" ]
            ELSE [ i \in {"1"} |-> "def_hgnc_1" ] ]

DataSpecies(fixture) ==
    IF fixture = "none" THEN [ p \in DataPrefixes |-> EmptyMap ]
    ELSE [ p \in DataPrefixes |->
            IF p = "go" THEN [ i \in {"3"} |-> "4932" ]
            ELSE [ i \in {"1"} |-> "9606" ] ]

DataSynonyms(fixture, texts) ==
    IF fixture = "none" THEN [ p \in DataPrefixes |-> EmptyMap ]
    ELSE [ p \in DataPrefixes |->
            IF p = "go"
            THEN [ i \in (IF texts THEN {"1", "2"} ELSE {"1"}) |->
                     IF i = "1" THEN <<"syn_a", "syn_b">> ELSE <<>> ]
            ELSE EmptyMap ]

DataXrefs(fixture) ==
    IF fixture = "none" THEN <<>>
    ELSE << [prefix |-> "go", identifier |-> "1", xref_prefix |-> "hgnc",
             xref_identifier |-> "1", provenance |-> "src"] >>

DataRels(fixture) ==
    IF fixture = "none" THEN <<>>
    ELSE << [prefix |-> "go", identifier |-> "3", relation_prefix |-> "ro",
             relation_identifier |-> "0002211", target_prefix |-> "go",
             target_identifier |-> "1"],
            [prefix |-> "hgnc", identifier |-> "1", relation_prefix |-> "ro",
             relation_identifier |-> "0002211", target_prefix |-> "go",
             target_identifier |-> "3"] >>

-----------------------------------------------------------------------------
(* Construction *)

\* _h with the counter over the provider's data in lazy mode too
_h_counting_lazily(lookup, lazy) ==
    [ getter |-> lookup, summarize |-> "_summarize" ]

\* _h / _wrap_pyobo_lookup: the getter and the summary function of one
\* attribute kind.  Eager: data.get and a counter over data.  Lazy: the
\* bulk-data provider and the Counter class, whose call gives an empty counter
_h(lookup, lazy) ==
    [ getter |-> lookup, summarize |-> IF lazy THEN "Counter" ELSE "_summarize" ]

\* MemoryBackend.__init__ as called by _prepare_backend_with_lookup: the
\* synonyms getter defaults to the bulk-data provider and has no summary
MemoryBackend_init(names, species, alts, defs, synonyms, lazy) ==
    [ get_id_name_mapping       |-> _h(names, lazy).getter,
      get_id_species_mapping    |-> _h(species, lazy).getter,
      get_alts_to_id            |-> _h(alts, lazy).getter,
      get_id_definition_mapping |-> _h(defs, lazy).getter,
      has_definition_getter     |-> TRUE,
      get_id_synonyms_mapping   |-> synonyms,
      summarize_names           |-> _h(names, lazy).summarize,
      summarize_species         |-> _h(species, lazy).summarize,
      summarize_alts            |-> _h(alts, lazy).summarize,
      summarize_definitions     |-> _h(defs, lazy).summarize,
      summarize_synonyms        |-> None ]

\* the rows (prefix, identifier) of a mapping prefix -> identifier -> value
Keys2(f) == { k \in (DOMAIN f) \X Ids : k[2] \in DOMAIN f[k[1]] }

\* Loader._create_summary_table_ddl over a table given by the prefixes of its
\* rows: SELECT prefix, COUNT(identifier) ... GROUP BY prefix
SummaryOfSet(rows) ==
    [ p \in { r.prefix : r \in rows } |->
        Cardinality({ r \in rows : r.prefix = p }) ]

SummaryOfSeq(rows) ==
    [ p \in { rows[k].prefix : k \in DOMAIN rows } |->
        Cardinality({ k \in DOMAIN rows : rows[k].prefix = p }) ]

\* Loader.derive_table: references LEFT JOIN definitions LEFT JOIN species
\* on (prefix, identifier); a missing right side is NULL
derive_table(names, defs, species) ==
    { [ prefix     |-> k[1],
        identifier |-> k[2],
        name       |-> names[k[1]][k[2]],
        definition |-> DictGet(defs[k[1]], k[2], None),
        species    |-> DictGet(species[k[1]], k[2], None) ] : k \in Keys2(names) }

\* one row (prefix, identifier, synonym) per synonym
SynonymRows(fixture) ==
    IF fixture = "none" THEN <<>>
    ELSE << [prefix |-> "go", identifier |-> "1", synonym |-> "syn_a"],
            [prefix |-> "go", identifier |-> "1", synonym |-> "syn_b"] >>

\* loader.load: the seven tables, their summary tables and the derived table
load(names, alts, fixture) ==
    LET defs     == DataDefs(fixture, FALSE)
        species  == DataSpecies(fixture)
        altrows  == { [prefix |-> "go", identifier |-> alts[a], alt |-> a]
                      : a \in DOMAIN alts }
    IN [ derived  |-> derive_table(names, defs, species),
         alts     |-> altrows,
         synonyms |-> SynonymRows(fixture),
         xrefs    |-> DataXrefs(fixture),
         rels     |-> DataRels(fixture),
         summary  |->
           [ refs     |-> SummaryOfSet({ [prefix |-> k[1], identifier |-> k[2]]
                                         : k \in Keys2(names) }),
             alts     |-> SummaryOfSet(altrows),
             defs     |-> SummaryOfSet({ [prefix |-> k[1], identifier |-> k[2]]
                                         : k \in Keys2(defs) }),
             species  |-> SummaryOfSet({ [prefix |-> k[1], identifier |-> k[2]]
                                         : k \in Keys2(species) }),
             synonyms |-> SummaryOfSeq(SynonymRows(fixture)),
             xrefs    |-> SummaryOfSeq(DataXrefs(fixture)),
             rels     |-> SummaryOfSeq(DataRels(fixture)) ] ]

NoMem == MemoryBackend_init(EmptyMap, EmptyMap, EmptyMap, EmptyMap, EmptyMap, TRUE)

NoDb == load([ p \in DataPrefixes |-> EmptyMap ], EmptyMap, "none")

NoCall == [op |-> "none"]

\* the concurrent callers of RawSQLBackend
Callers == {1, 2}

\* the RawSQLBackend instances of the process, over the same database
Instances == {"a", "b"}

\* the functions of RawSQLBackend decorated with lru_cache; the cache
\* belongs to the function, so all instances share it
lru_caches ==
    { "_get_summary", "has_prefix", "get_primary_id", "_help_one",
      "count_names", "count_prefixes", "count_definitions", "count_species",
      "count_synonyms", "count_xrefs", "count_rels", "count_alts" }

\* a caller between two calls
IdleThread ==
    [ pc      |-> "idle",
      self    |-> None,
      op      |-> "none",
      args    |-> <<>>,
      sql     |-> <<>>,
      outcome |-> "none",
      ret     |-> PyNone,
      again   |-> FALSE ]

\* no caller has called yet: the caches are empty, no connection is out
SqlIdle ==
    /\ thread = [ t \in Callers |-> IdleThread ]
    /\ lru = [ f \in lru_caches |-> <<>> ]
    /\ held = [ i \in Instances |-> 0 ]
    /\ returned = {}
    /\ ncalls = 0

\* no loader is running
LoadIdle ==
    /\ source = "df"
    /\ records = <<>>
    /\ lpc = "idle"
    /\ lineno = 1
    /\ mapping = EmptyMap

\* no backend is configured and api.lookup has not been called
NoBackend == [ id |-> 0, class |-> None ]

\* api.lookup between two calls
NoApiCall ==
    [ pc              |-> "idle",
      remote_fallback |-> TRUE,
      hit             |-> FALSE,
      uri             |-> None,
      backend         |-> NoBackend,
      outcome         |-> "none",
      exc             |-> None ]

\* api.py as imported: nothing is cached and nothing was constructed
ApiIdle ==
    /\ config = None
    /\ default_backend = <<>>
    /\ made = 0
    /\ selected = {}
    /\ api = NoApiCall

\* get_backend: the backend after construction
Init ==
    /\ SqlIdle
    /\ LoadIdle
    /\ ApiIdle
    /\ pc = "idle"
    /\ call = NoCall
    /\ outcome = "none"
    /\ ret = PyNone
    /\ getters = <<>>
    /\ http = <<>>
    /\ \E goIds \in SUBSET Ids, hgncIds \in {{}, {"1"}}, alts \in AltMaps,
          fixture \in {"none", "full"} :
         LET names == DataNames(goIds, hgncIds)
         IN \/ /\ variant = "eager"
               /\ mem = MemoryBackend_init(
                          Lookup2(names), Lookup2(DataSpecies(fixture)),
                          Lookup2(DataAlts(alts)), Lookup2(DataDefs(fixture, TRUE)),
                          Lookup2(DataSynonyms(fixture, TRUE)), FALSE)
               /\ db = NoDb
            \/ /\ variant = "lazy"
               /\ \E empties \in BOOLEAN :
                    LET keep(f) == IF empties THEN f ELSE Lookup2(f)
                    IN mem = MemoryBackend_init(
                               keep(names), keep(DataSpecies(fixture)),
                               keep(DataAlts(alts)), keep(DataDefs(fixture, TRUE)),
                               keep(DataSynonyms(fixture, TRUE)), TRUE)
               /\ db = NoDb
            \/ /\ variant = "sql"
               /\ mem = NoMem
               /\ db = load(names, alts, fixture)
            \/ /\ variant = "remote"
               /\ mem = NoMem
               /\ db = NoDb

-----------------------------------------------------------------------------
(* The CURIE normalizer (bioregistry), an external collaborator *)

\* a CURIE string is a sequence of tokens; ":" is the separator
PrefixTokens == {"go", "GO", "hgnc", "doid", "zzz"}

Curies ==
    { <<>>, <<"go">>, <<"go", ":">> }
      \cup { <<t, ":", i>> : t \in PrefixTokens, i \in Ids }

RECURSIVE Join(_)
\* the string a token sequence spells
Join(toks) == IF toks = <<>> THEN "" ELSE Head(toks) \o Join(Tail(toks))

\* bioregistry.normalize_prefix: the canonical prefix, or None
normalize_prefix(p) ==
    CASE p \in {"go", "GO"} -> "go"
      [] p = "hgnc"         -> "hgnc"
      [] p = "doid"         -> "doid"
      [] OTHER              -> None

\* bioregistry.parse_curie: split at the first separator, normalize the prefix
parse_curie(curie) ==
    LET seps == { k \in DOMAIN curie : curie[k] = ":" }
    IN IF seps = {} THEN <<None, None>>
       ELSE LET k    == CHOOSE x \in seps : \A y \in seps : x <= y
                norm == normalize_prefix(Join(SubSeq(curie, 1, k - 1)))
            IN IF norm = None THEN <<None, None>>
               ELSE <<norm, Join(SubSeq(curie, k + 1, Len(curie)))>>

\* bioregistry.get_providers: provider name -> URL of the entity
get_providers(prefix, identifier) ==
    [ bioregistry |-> "https://bioregistry.io/" \o prefix \o ":" \o identifier ]

-----------------------------------------------------------------------------
(* MemoryBackend *)

\* provider(prefix) or {}
OrEmpty(provider, prefix) == DictGet(provider, prefix, EmptyMap)

\* has_prefix taking an empty name mapping for a missing one
MemoryBackend_has_prefix_nonempty(prefix) ==
    /\ prefix \in DOMAIN mem.get_id_name_mapping
    /\ mem.get_id_name_mapping[prefix] # EmptyMap

MemoryBackend_has_prefix(prefix) ==
    prefix \in DOMAIN mem.get_id_name_mapping

\* get_primary_id reading the alts mapping backwards (primary -> alt)
MemoryBackend_get_primary_id_reversed(prefix, identifier) ==
    LET alts_to_id == OrEmpty(mem.get_alts_to_id, prefix)
        hits       == { a \in DOMAIN alts_to_id : alts_to_id[a] = identifier }
    IN IF hits = {} THEN identifier ELSE CHOOSE a \in hits : TRUE

MemoryBackend_get_primary_id(prefix, identifier) ==
    DictGet(OrEmpty(mem.get_alts_to_id, prefix), identifier, identifier)

\* get_name resolving an alternate id to its primary id first
MemoryBackend_get_name_redirecting(prefix, identifier) ==
    DictGet(OrEmpty(mem.get_id_name_mapping, prefix),
            MemoryBackend_get_primary_id(prefix, identifier), None)

MemoryBackend_get_name(prefix, identifier) ==
    DictGet(OrEmpty(mem.get_id_name_mapping, prefix), identifier, None)

MemoryBackend_get_species(prefix, identifier) ==
    DictGet(OrEmpty(mem.get_id_species_mapping, prefix), identifier, None)

MemoryBackend_get_definition(prefix, identifier) ==
    IF ~mem.has_definition_getter THEN None
    ELSE DictGet(OrEmpty(mem.get_id_definition_mapping, prefix), identifier, None)

MemoryBackend_get_synonyms(prefix, identifier) ==
    DictGet(OrEmpty(mem.get_id_synonyms_mapping, prefix), identifier, <<>>)

\* _summarize of _h: Counter({k: len(v) for k, v in lookup.items()});
\* Counter() is the empty counter
CallSummary(fn, lookup) ==
    IF fn = "_summarize"
    THEN [ p \in DOMAIN lookup |-> Cardinality(DOMAIN lookup[p]) ]
    ELSE EmptyMap

\* MemoryBackend.summarize_names/alts/definitions/species/synonyms
MemoryBackend_summarize(attr) ==
    CASE attr = "names" ->
           IF mem.summarize_names = None THEN EmptyMap
           ELSE CallSummary(mem.summarize_names, mem.get_id_name_mapping)
      [] attr = "alts" ->
           IF mem.summarize_alts = None THEN EmptyMap
           ELSE CallSummary(mem.summarize_alts, mem.get_alts_to_id)
      [] attr = "definitions" ->
           IF mem.summarize_definitions = None THEN EmptyMap
           ELSE CallSummary(mem.summarize_definitions, mem.get_id_definition_mapping)
      [] attr = "species" ->
           IF mem.summarize_species = None THEN EmptyMap
           ELSE CallSummary(mem.summarize_species, mem.get_id_species_mapping)
      [] attr = "synonyms" ->
           IF mem.summarize_synonyms = None THEN EmptyMap
           ELSE CallSummary(mem.summarize_synonyms, mem.get_id_synonyms_mapping)

\* MemoryBackend.count_names/alts/definitions/species/synonyms: the sum of
\* the summary; count_prefixes: the number of its keys
MemoryBackend_count(attr) ==
    IF attr = "prefixes"
    THEN PyInt(Cardinality(DOMAIN MemoryBackend_summarize("names")))
    ELSE PyInt(SumValues(MemoryBackend_summarize(attr)))

-----------------------------------------------------------------------------
(* RawSQLBackend *)

\* the table an attribute kind is stored in
TableOf(attr) ==
    CASE attr = "names"       -> "refs"
      [] attr = "alts"        -> "alts"
      [] attr = "definitions" -> "defs"
      [] attr = "species"     -> "species"
      [] attr = "synonyms"    -> "synonyms"
      [] attr = "xrefs"       -> "xrefs"
      [] attr = "rels"        -> "rels"

\* Result.scalar(): the first column of the first row, None without a row
Scalar(values) == IF values = {} THEN None ELSE CHOOSE v \in values : TRUE

\* SELECT EXISTS(SELECT 1 from derived WHERE prefix = :prefix): fetchone()
\* gives the one row of the result, a 1-tuple holding the boolean
ExistsRow(prefix) == << \E r \in db.derived : r.prefix = prefix >>

\* bool(result) of a row: a row is a sequence, true when it is not empty
RawSQLBackend_has_prefix(prefix) == Len(ExistsRow(prefix)) > 0

\* get_primary_id without the fallback to the input identifier
RawSQLBackend_get_primary_id_no_fallback(prefix, identifier) ==
    Scalar({ r.identifier : r \in
             { q \in db.alts : q.prefix = prefix /\ q.alt = identifier } })

\* SELECT identifier FROM alts WHERE prefix = :prefix and alt = :alt
RawSQLBackend_get_primary_id(prefix, identifier) ==
    LET result == Scalar({ r.identifier : r \in
                           { q \in db.alts : q.prefix = prefix /\ q.alt = identifier } })
    IN IF TruthyStr(result) THEN result ELSE identifier

\* _help_one with the identifier filter left out of the WHERE clause
_help_one_prefix_only(column, prefix, identifier) ==
    Scalar({ r[column] : r \in { q \in db.derived : q.prefix = prefix } })

\* _help_one selecting the row of the primary id of the identifier
_help_one_redirecting(column, prefix, identifier) ==
    Scalar({ r[column] : r \in
             { q \in db.derived :
                 /\ q.prefix = prefix
                 /\ q.identifier = RawSQLBackend_get_primary_id(prefix, identifier) } })

\* SELECT column FROM derived WHERE prefix = :prefix and identifier = :identifier
_help_one(column, prefix, identifier) ==
    Scalar({ r[column] : r \in
             { q \in db.derived : q.prefix = prefix /\ q.identifier = identifier } })

RawSQLBackend_get_name(prefix, identifier) == _help_one("name", prefix, identifier)

RawSQLBackend_get_species(prefix, identifier) == _help_one("species", prefix, identifier)

RawSQLBackend_get_definition(prefix, identifier) ==
    _help_one("definition", prefix, identifier)

\* SELECT columns FROM table WHERE prefix = :prefix and identifier = :identifier
_fetchmany(table, prefix, identifier) ==
    LET Match(r) == r.prefix = prefix /\ r.identifier = identifier
    IN SelectSeq(db[table], Match)

\* _help_many: the one selected column of each row
RawSQLBackend_get_synonyms(prefix, identifier) ==
    LET results == _fetchmany("synonyms", prefix, identifier)
    IN [ k \in DOMAIN results |-> results[k].synonym ]

\* _help_many_dict: a dict of the selected columns for each row
RawSQLBackend_get_xrefs(prefix, identifier) ==
    LET results == _fetchmany("xrefs", prefix, identifier)
    IN [ k \in DOMAIN results |->
           [ xref_prefix     |-> results[k].xref_prefix,
             xref_identifier |-> results[k].xref_identifier,
             provenance      |-> results[k].provenance ] ]

RawSQLBackend_get_rels(prefix, identifier) ==
    LET results == _fetchmany("rels", prefix, identifier)
    IN [ k \in DOMAIN results |->
           [ relation_prefix     |-> results[k].relation_prefix,
             relation_identifier |-> results[k].relation_identifier,
             target_prefix       |-> results[k].target_prefix,
             target_identifier   |-> results[k].target_identifier ] ]

\* SELECT prefix, identifier_count FROM {table}_summary, as a Counter
_get_summary(table) == db.summary[table]

RawSQLBackend_summarize(attr) == _get_summary(TableOf(attr))

\* SELECT SUM(identifier_count) FROM {table}_summary: NULL over no rows
_count_summary(table) ==
    IF DOMAIN db.summary[table] = {} THEN PyNone
    ELSE PyInt(SumValues(db.summary[table]))

\* count_alts counts the rows of the alts table itself; count_prefixes
\* counts the distinct prefixes of the references summary
RawSQLBackend_count(attr) ==
    CASE attr = "alts"     -> PyInt(Cardinality(db.alts))
      [] attr = "prefixes" -> PyInt(Cardinality(DOMAIN db.summary["refs"]))
      [] OTHER             -> _count_summary(TableOf(attr))

-----------------------------------------------------------------------------
(* Backend: the contract and method resolution *)

Attrs == {"names", "alts", "definitions", "species", "synonyms", "xrefs", "rels"}

\* the class of the backend instance
Class ==
    CASE variant \in {"eager", "lazy"} -> "MemoryBackend"
      [] variant = "sql"               -> "RawSQLBackend"
      [] variant = "remote"            -> "RemoteBackend"

\* MemoryBackend without an override of get_species
MemoryBackend_methods_no_get_species ==
    { "has_prefix", "get_primary_id", "get_name", "get_definition",
      "get_synonyms", "summarize_names", "summarize_alts", "summarize_definitions",
      "summarize_species", "summarize_synonyms", "count_prefixes", "count_names",
      "count_alts", "count_definitions", "count_species", "count_synonyms" }

\* the methods each subclass body defines
MemoryBackend_methods ==
    { "has_prefix", "get_primary_id", "get_name", "get_species", "get_definition",
      "get_synonyms", "summarize_names", "summarize_alts", "summarize_definitions",
      "summarize_species", "summarize_synonyms", "count_prefixes", "count_names",
      "count_alts", "count_definitions", "count_species", "count_synonyms" }

RawSQLBackend_methods ==
    { "has_prefix", "get_primary_id", "get_name", "get_species", "get_definition",
      "get_synonyms", "get_xrefs", "get_rels", "summarize_names", "summarize_alts",
      "summarize_definitions", "summarize_species", "summarize_synonyms",
      "summarize_xrefs", "summarize_rels", "count_prefixes", "count_names",
      "count_alts", "count_definitions", "count_species", "count_synonyms",
      "count_xrefs", "count_rels" }

RemoteBackend_methods == { "lookup" }

\* the methods of Backend whose body is raise NotImplementedError
Backend_abstract ==
    { "has_prefix", "get_primary_id", "get_name", "get_species", "get_definition" }
      \cup { "summarize_" \o a : a \in Attrs }

\* the class whose definition a call of the method on the instance runs
Owner(method) ==
    LET own == CASE Class = "MemoryBackend" -> MemoryBackend_methods
                 [] Class = "RawSQLBackend" -> RawSQLBackend_methods
                 [] Class = "RemoteBackend" -> RemoteBackend_methods
    IN IF method \in own THEN Class ELSE "Backend"

\* the call ends in NotImplementedError
Raises(method) == Owner(method) = "Backend" /\ method \in Backend_abstract

self_has_prefix(prefix) ==
    CASE Owner("has_prefix") = "MemoryBackend" -> MemoryBackend_has_prefix(prefix)
      [] Owner("has_prefix") = "RawSQLBackend" -> RawSQLBackend_has_prefix(prefix)
      [] OTHER -> FALSE

self_get_primary_id(prefix, identifier) ==
    CASE Owner("get_primary_id") = "MemoryBackend" ->
           MemoryBackend_get_primary_id(prefix, identifier)
      [] Owner("get_primary_id") = "RawSQLBackend" ->
           RawSQLBackend_get_primary_id(prefix, identifier)
      [] OTHER -> None

self_get_name(prefix, identifier) ==
    CASE Owner("get_name") = "MemoryBackend" -> MemoryBackend_get_name(prefix, identifier)
      [] Owner("get_name") = "RawSQLBackend" -> RawSQLBackend_get_name(prefix, identifier)
      [] OTHER -> None

self_get_species(prefix, identifier) ==
    CASE Owner("get_species") = "MemoryBackend" ->
           MemoryBackend_get_species(prefix, identifier)
      [] Owner("get_species") = "RawSQLBackend" ->
           RawSQLBackend_get_species(prefix, identifier)
      [] OTHER -> None

self_get_definition(prefix, identifier) ==
    CASE Owner("get_definition") = "MemoryBackend" ->
           MemoryBackend_get_definition(prefix, identifier)
      [] Owner("get_definition") = "RawSQLBackend" ->
           RawSQLBackend_get_definition(prefix, identifier)
      [] OTHER -> None

\* Backend.get_synonyms, get_xrefs and get_rels log a warning and return []
self_get_synonyms(prefix, identifier) ==
    CASE Owner("get_synonyms") = "MemoryBackend" ->
           MemoryBackend_get_synonyms(prefix, identifier)
      [] Owner("get_synonyms") = "RawSQLBackend" ->
           RawSQLBackend_get_synonyms(prefix, identifier)
      [] OTHER -> <<>>

self_get_xrefs(prefix, identifier) ==
    CASE Owner("get_xrefs") = "RawSQLBackend" -> RawSQLBackend_get_xrefs(prefix, identifier)
      [] OTHER -> <<>>

self_get_rels(prefix, identifier) ==
    CASE Owner("get_rels") = "RawSQLBackend" -> RawSQLBackend_get_rels(prefix, identifier)
      [] OTHER -> <<>>

self_summarize(attr) ==
    CASE Owner("summarize_" \o attr) = "MemoryBackend" -> MemoryBackend_summarize(attr)
      [] Owner("summarize_" \o attr) = "RawSQLBackend" -> RawSQLBackend_summarize(attr)
      [] OTHER -> EmptyMap

\* Backend.count_* have no body and return None
self_count(attr) ==
    CASE Owner("count_" \o attr) = "MemoryBackend" -> MemoryBackend_count(attr)
      [] Owner("count_" \o attr) = "RawSQLBackend" -> RawSQLBackend_count(attr)
      [] OTHER -> PyNone

-----------------------------------------------------------------------------
(* Backend.lookup *)

\* one invocation of a primitive getter
G(op, prefix, identifier) == [op |-> op, prefix |-> prefix, identifier |-> identifier]

\* rv[key] = value, set only under the condition
SetIf(cond, key, value) == IF cond THEN key :> value ELSE EmptyMap

\* lookup_unparsed with the unset fields filled in as None
lookup_unparsed_null_fields(curie) ==
    [ query      |-> curie,
      prefix     |-> None,
      identifier |-> None,
      success    |-> FALSE,
      message    |-> "Could not identify prefix" ]

\* the return of Backend.lookup when the CURIE does not parse
lookup_unparsed(curie) ==
    [ query   |-> curie,
      success |-> FALSE,
      message |-> "Could not identify prefix" ]

\* lookup_no_prefix without the message
lookup_no_prefix_no_message(curie, prefix, identifier, providers) ==
    [ query      |-> curie,
      prefix     |-> prefix,
      identifier |-> identifier,
      providers  |-> providers,
      success    |-> FALSE ]

\* the return of Backend.lookup when has_prefix is false
lookup_no_prefix(curie, prefix, identifier, providers) ==
    [ query      |-> curie,
      prefix     |-> prefix,
      identifier |-> identifier,
      providers  |-> providers,
      success    |-> FALSE,
      message    |-> "Could not find id->name mapping for " \o prefix ]

\* lookup_no_name reporting the identifier as parsed, not as redirected
lookup_no_name_parsed_id(curie, prefix, identifier, providers) ==
    [ query      |-> curie,
      prefix     |-> prefix,
      identifier |-> parse_curie(curie)[2],
      success    |-> FALSE,
      providers  |-> providers,
      message    |-> "Could not look up identifier" ]

\* the return of Backend.lookup when no name was found
lookup_no_name(curie, prefix, identifier, providers) ==
    [ query      |-> curie,
      prefix     |-> prefix,
      identifier |-> identifier,
      success    |-> FALSE,
      providers  |-> providers,
      message    |-> "Could not look up identifier" ]

\* lookup_found keeping the providers of the identifier as parsed
lookup_found_parsed_providers(curie, prefix, identifier, name, providers) ==
    LET definition == self_get_definition(prefix, identifier)
        species    == self_get_species(prefix, identifier)
        synonyms   == self_get_synonyms(prefix, identifier)
        xrefs      == self_get_xrefs(prefix, identifier)
        rels       == self_get_rels(prefix, identifier)
    IN [ query      |-> curie,
         prefix     |-> prefix,
         identifier |-> identifier,
         name       |-> name,
         success    |-> TRUE,
         providers  |-> get_providers(prefix, parse_curie(curie)[2]) ]
       @@ SetIf(TruthyStr(definition), "definition", definition)
       @@ SetIf(TruthyStr(species), "species", species)
       @@ SetIf(TruthyList(synonyms), "synonyms", synonyms)
       @@ SetIf(TruthyList(xrefs), "xrefs", xrefs)
       @@ SetIf(TruthyList(rels), "relations", rels)

\* the return of Backend.lookup when a name was found: the attributes whose
\* getter gives a true value are attached
lookup_found(curie, prefix, identifier, name, providers) ==
    LET definition == self_get_definition(prefix, identifier)
        species    == self_get_species(prefix, identifier)
        synonyms   == self_get_synonyms(prefix, identifier)
        xrefs      == self_get_xrefs(prefix, identifier)
        rels       == self_get_rels(prefix, identifier)
    IN [ query      |-> curie,
         prefix     |-> prefix,
         identifier |-> identifier,
         name       |-> name,
         success    |-> TRUE,
         providers  |-> providers ]
       @@ SetIf(TruthyStr(definition), "definition", definition)
       @@ SetIf(TruthyStr(species), "species", species)
       @@ SetIf(TruthyList(synonyms), "synonyms", synonyms)
       @@ SetIf(TruthyList(xrefs), "xrefs", xrefs)
       @@ SetIf(TruthyList(rels), "relations", rels)

\* the getters lookup_found invokes, in order
found_getters(prefix, identifier) ==
    << G("get_definition", prefix, identifier),
       G("get_species", prefix, identifier),
       G("get_synonyms", prefix, identifier),
       G("get_xrefs", prefix, identifier),
       G("get_rels", prefix, identifier) >>

\* redirected following a second alts row from the primary id it found
redirected_chained(prefix, identifier, name, resolve_alternate) ==
    IF name = None /\ resolve_alternate
    THEN self_get_primary_id(prefix, self_get_primary_id(prefix, identifier))
    ELSE identifier

\* the identifier Backend.lookup goes on with after the first get_name
redirected(prefix, identifier, name, resolve_alternate) ==
    IF name = None /\ resolve_alternate
    THEN self_get_primary_id(prefix, identifier)
    ELSE identifier

\* Backend_lookup asking for the primary id whether or not a name was found
Backend_lookup_always_resolving(curie, resolve_alternate) ==
    LET parsed      == parse_curie(curie)
        prefix      == parsed[1]
        identifier0 == parsed[2]
    IN
    IF prefix = None \/ identifier0 = None
    THEN [ rv |-> lookup_unparsed(curie), getters |-> <<>> ]
    ELSE
    LET providers0 == get_providers(prefix, identifier0)
        g1         == << G("has_prefix", prefix, None) >>
    IN
    IF ~self_has_prefix(prefix)
    THEN [ rv |-> lookup_no_prefix(curie, prefix, identifier0, providers0),
           getters |-> g1 ]
    ELSE
    LET name0      == self_get_name(prefix, identifier0)
        g2         == Append(g1, G("get_name", prefix, identifier0))
        asked      == resolve_alternate
        identifier == redirected(prefix, identifier0, None, resolve_alternate)
        g3         == IF asked
                      THEN Append(g2, G("get_primary_id", prefix, identifier0))
                      ELSE g2
        changed    == asked /\ identifier # identifier0
        providers  == IF changed THEN get_providers(prefix, identifier) ELSE providers0
        name       == IF changed THEN self_get_name(prefix, identifier) ELSE name0
        g4         == IF changed THEN Append(g3, G("get_name", prefix, identifier)) ELSE g3
    IN
    IF name = None
    THEN [ rv |-> lookup_no_name(curie, prefix, identifier, providers),
           getters |-> g4 ]
    ELSE [ rv |-> lookup_found(curie, prefix, identifier, name, providers),
           getters |-> g4 \o found_getters(prefix, identifier) ]

\* the result dict of Backend.lookup and the getters it invokes, in order
Backend_lookup(curie, resolve_alternate) ==
    LET parsed      == parse_curie(curie)
        prefix      == parsed[1]
        identifier0 == parsed[2]
    IN
    IF prefix = None \/ identifier0 = None
    THEN [ rv |-> lookup_unparsed(curie), getters |-> <<>> ]
    ELSE
    LET providers0 == get_providers(prefix, identifier0)
        g1         == << G("has_prefix", prefix, None) >>
    IN
    IF ~self_has_prefix(prefix)
    THEN [ rv |-> lookup_no_prefix(curie, prefix, identifier0, providers0),
           getters |-> g1 ]
    ELSE
    LET name0      == self_get_name(prefix, identifier0)
        g2         == Append(g1, G("get_name", prefix, identifier0))
        asked      == name0 = None /\ resolve_alternate
        identifier == redirected(prefix, identifier0, name0, resolve_alternate)
        g3         == IF asked
                      THEN Append(g2, G("get_primary_id", prefix, identifier0))
                      ELSE g2
        changed    == asked /\ identifier # identifier0
        providers  == IF changed THEN get_providers(prefix, identifier) ELSE providers0
        name       == IF changed THEN self_get_name(prefix, identifier) ELSE name0
        g4         == IF changed THEN Append(g3, G("get_name", prefix, identifier)) ELSE g3
    IN
    IF name = None
    THEN [ rv |-> lookup_no_name(curie, prefix, identifier, providers),
           getters |-> g4 ]
    ELSE [ rv |-> lookup_found(curie, prefix, identifier, name, providers),
           getters |-> g4 \o found_getters(prefix, identifier) ]

\* the positions of the getter calls that end in NotImplementedError
RaisingCalls(gs) == { k \in DOMAIN gs : Raises(gs[k].op) }

\* the first of them: the lookup stops there
FirstRaise(gs) == CHOOSE k \in RaisingCalls(gs) : \A j \in RaisingCalls(gs) : k <= j

-----------------------------------------------------------------------------
(* RemoteBackend *)

\* constants.DEFAULT_URL and DEFAULT_ENDPOINT, stripped of slashes
DEFAULT_URL == "http://biolookup.io"

DEFAULT_ENDPOINT == "api/lookup"

\* RemoteRequest with the endpoint left out of the URL
RemoteRequest_no_endpoint(curie) ==
    [ method  |-> "GET",
      url     |-> DEFAULT_URL \o "/" \o Join(curie),
      timeout |-> 5 ]

\* the GET request of RemoteBackend.lookup
RemoteRequest(curie) ==
    [ method  |-> "GET",
      url     |-> DEFAULT_URL \o "/" \o DEFAULT_ENDPOINT \o "/" \o Join(curie),
      timeout |-> 5 ]

\* the bodies a remote instance of the service may answer a lookup with
RemoteBodies(curie) ==
    { [ query |-> curie, success |-> FALSE, message |-> "Could not identify prefix" ],
      [ query |-> curie, success |-> TRUE, prefix |-> "go", identifier |-> "1",
        name |-> NameOf("go", "1"), providers |-> get_providers("go", "1") ] }

\* the HTTP status codes the remote may answer with
RemoteStatuses == {200, 404, 500}

-----------------------------------------------------------------------------
(* Operations *)

\* the prefixes the getters are called with: loaded ones and an unloaded one
QueryPrefixes == DataPrefixes \cup {"doid"}

\* a call of a method ends: it raises NotImplementedError or returns value
Finish(c, method, value, gs) ==
    /\ pc = "idle"
    /\ pc' = "done"
    /\ call' = c
    /\ outcome' = IF Raises(method) THEN "raised" ELSE "returned"
    /\ ret' = IF Raises(method) THEN PyExc("NotImplementedError") ELSE value
    /\ getters' = gs
    /\ http' = <<>>
    /\ UNCHANGED <<variant, mem, db>>
    /\ UNCHANGED sqlvars
    /\ UNCHANGED loadvars
    /\ UNCHANGED apivars

\* Backend.lookup, inherited by MemoryBackend and RawSQLBackend
Lookup(curie, resolve_alternate) ==
    /\ pc = "idle"
    /\ Owner("lookup") = "Backend"
    /\ LET r == Backend_lookup(curie, resolve_alternate)
           c == [op |-> "lookup", curie |-> curie, resolve_alternate |-> resolve_alternate]
       IN IF RaisingCalls(r.getters) = {}
          THEN Finish(c, "lookup", PyDict(r.rv), r.getters)
          ELSE LET k == FirstRaise(r.getters)
               IN Finish(c, r.getters[k].op, PyNone, SubSeq(r.getters, 1, k))

\* RemoteBackend.lookup: one GET, raise_for_status, the parsed body
RemoteLookup(curie, resolve_alternate) ==
    /\ pc = "idle"
    /\ Owner("lookup") = "RemoteBackend"
    /\ pc' = "done"
    /\ call' = [op |-> "lookup", curie |-> curie, resolve_alternate |-> resolve_alternate]
    /\ http' = << RemoteRequest(curie) >>
    /\ getters' = <<>>
    /\ \E status \in RemoteStatuses :
         IF status >= 400
         THEN outcome' = "raised" /\ ret' = PyExc("HTTPError")
         ELSE \E body \in RemoteBodies(curie) :
                outcome' = "returned" /\ ret' = PyDict(body)
    /\ UNCHANGED <<variant, mem, db>>
    /\ UNCHANGED sqlvars
    /\ UNCHANGED loadvars
    /\ UNCHANGED apivars

HasPrefix(prefix) ==
    Finish([op |-> "has_prefix", prefix |-> prefix], "has_prefix",
           PyBool(self_has_prefix(prefix)), <<>>)

GetPrimaryId(prefix, identifier) ==
    Finish(G("get_primary_id", prefix, identifier), "get_primary_id",
           PyStr(self_get_primary_id(prefix, identifier)), <<>>)

GetName(prefix, identifier) ==
    Finish(G("get_name", prefix, identifier), "get_name",
           PyStr(self_get_name(prefix, identifier)), <<>>)

GetDefinition(prefix, identifier) ==
    Finish(G("get_definition", prefix, identifier), "get_definition",
           PyStr(self_get_definition(prefix, identifier)), <<>>)

GetSpecies(prefix, identifier) ==
    Finish(G("get_species", prefix, identifier), "get_species",
           PyStr(self_get_species(prefix, identifier)), <<>>)

GetSynonyms(prefix, identifier) ==
    Finish(G("get_synonyms", prefix, identifier), "get_synonyms",
           PyList(self_get_synonyms(prefix, identifier)), <<>>)

GetXrefs(prefix, identifier) ==
    Finish(G("get_xrefs", prefix, identifier), "get_xrefs",
           PyList(self_get_xrefs(prefix, identifier)), <<>>)

GetRels(prefix, identifier) ==
    Finish(G("get_rels", prefix, identifier), "get_rels",
           PyList(self_get_rels(prefix, identifier)), <<>>)

\* summarize_names, summarize_alts, ...
Summarize(attr) ==
    Finish([op |-> "summarize", attr |-> attr], "summarize_" \o attr,
           PyDict(self_summarize(attr)), <<>>)

\* count_names, count_alts, ..., count_prefixes
Count(attr) ==
    Finish([op |-> "count", attr |-> attr], "count_" \o attr, self_count(attr), <<>>)

\* the counters Backend.count_all invokes, in order
count_all_calls ==
    << "prefixes", "definitions", "alts", "names", "species", "synonyms", "xrefs",
       "rels" >>

\* Backend.count_all: every counter is called and its value dropped
CountAll ==
    Finish([op |-> "count_all"], "count_all", PyNone,
           [ k \in DOMAIN count_all_calls |-> [op |-> "count_" \o count_all_calls[k]] ])

\* the summarize_* calls of Backend.summary_df, in order; every one is made:
\* a bound method is never None
summary_df_calls ==
    << "names", "alts", "definitions", "species", "synonyms", "xrefs", "rels" >>

\* the rows of the frame: one per prefix of the name summary, a missing
\* count read as 0
summary_df_rows ==
    [ prefix \in DOMAIN self_summarize("names") |->
        [ attr \in Attrs |-> DictGet(self_summarize(attr), prefix, 0) ] ]

\* Backend.summary_df: stops at the first summarize_* that raises
SummaryDf ==
    LET raising == { k \in DOMAIN summary_df_calls :
                       Raises("summarize_" \o summary_df_calls[k]) }
        first   == CHOOSE k \in raising : \A j \in raising : k <= j
    IN IF raising = {}
       THEN Finish([op |-> "summary_df"], "summary_df", PyDict(summary_df_rows), <<>>)
       ELSE Finish([op |-> "summary_df"], "summarize_" \o summary_df_calls[first],
                   PyNone, <<>>)

\* the caller takes the result; the backend is ready for the next call
Return ==
    /\ pc = "done"
    /\ pc' = "idle"
    /\ call' = NoCall
    /\ outcome' = "none"
    /\ ret' = PyNone
    /\ getters' = <<>>
    /\ http' = <<>>
    /\ UNCHANGED <<variant, mem, db>>
    /\ UNCHANGED sqlvars
    /\ UNCHANGED loadvars
    /\ UNCHANGED apivars

Next ==
    \/ \E curie \in Curies, resolve_alternate \in BOOLEAN : Lookup(curie, resolve_alternate)
    \/ \E curie \in Curies, resolve_alternate \in BOOLEAN :
         RemoteLookup(curie, resolve_alternate)
    \/ \E prefix \in QueryPrefixes : HasPrefix(prefix)
    \/ \E prefix \in QueryPrefixes, identifier \in Ids : GetPrimaryId(prefix, identifier)
    \/ \E prefix \in QueryPrefixes, identifier \in Ids : GetName(prefix, identifier)
    \/ \E prefix \in QueryPrefixes, identifier \in Ids : GetDefinition(prefix, identifier)
    \/ \E prefix \in QueryPrefixes, identifier \in Ids : GetSpecies(prefix, identifier)
    \/ \E prefix \in QueryPrefixes, identifier \in Ids : GetSynonyms(prefix, identifier)
    \/ \E prefix \in QueryPrefixes, identifier \in Ids : GetXrefs(prefix, identifier)
    \/ \E prefix \in QueryPrefixes, identifier \in Ids : GetRels(prefix, identifier)
    \/ \E attr \in Attrs : Summarize(attr)
    \/ \E attr \in Attrs \cup {"prefixes"} : Count(attr)
    \/ SummaryDf
    \/ CountAll
    \/ Return

Spec == Init /\ [][Next]_vars

-----------------------------------------------------------------------------
(* RawSQLBackend under concurrent callers: lru_cache, statements, connections *)

\* the calls a caller may start in the run
MaxCalls == 3

\* the methods that read one value of the derived table through _help_one
HelpOneOps == {"get_name", "get_species", "get_definition"}

\* the methods that read rows through _fetchmany
FetchManyOps == {"get_synonyms", "get_xrefs", "get_rels"}

\* the calls of the run: the method and its arguments
SqlCalls ==
    { [op |-> "has_prefix",     args |-> <<"go">>],
      [op |-> "has_prefix",     args |-> <<"doid">>],
      [op |-> "get_primary_id", args |-> <<"go", "3">>],
      [op |-> "get_name",       args |-> <<"go", "1">>],
      [op |-> "get_name",       args |-> <<"go", "3">>],
      [op |-> "get_definition", args |-> <<"go", "1">>],
      [op |-> "get_synonyms",   args |-> <<"go", "1">>],
      [op |-> "get_synonyms",   args |-> <<"go", "3">>],
      [op |-> "get_xrefs",      args |-> <<"go", "1">>],
      [op |-> "get_rels",       args |-> <<"go", "3">>],
      [op |-> "summarize",      args |-> <<"names">>],
      [op |-> "count",          args |-> <<"names">>],
      [op |-> "count",          args |-> <<"alts">>] }

\* the table names RawSQLBackend.__init__ configures by default
TableName(table) ==
    CASE table = "refs"     -> "obo_reference"
      [] table = "alts"     -> "obo_alt"
      [] table = "defs"     -> "obo_def"
      [] table = "species"  -> "obo_species"
      [] table = "derived"  -> "entities"
      [] table = "synonyms" -> "synonyms"
      [] table = "xrefs"    -> "xrefs"
      [] table = "rels"     -> "relations"

\* the column get_name, get_species and get_definition pass to _help_one
Column(op) ==
    CASE op = "get_name"       -> "name"
      [] op = "get_species"    -> "species"
      [] op = "get_definition" -> "definition"

\* the columns and the table get_synonyms, get_xrefs, get_rels select
ManyColumns(op) ==
    CASE op = "get_synonyms" -> "synonym"
      [] op = "get_xrefs"    -> "xref_prefix, xref_identifier, provenance"
      [] op = "get_rels"     ->
           "relation_prefix, relation_identifier, target_prefix, target_identifier"

ManyTable(op) ==
    CASE op = "get_synonyms" -> "synonyms"
      [] op = "get_xrefs"    -> "xrefs"
      [] op = "get_rels"     -> "rels"

\* SqlText with _help_one formatting its arguments into the text
SqlText_formatted(op, args) ==
    CASE op = "has_prefix" ->
           "SELECT EXISTS(SELECT 1 from " \o TableName("derived")
             \o " WHERE prefix = :prefix);"
      [] op = "get_primary_id" ->
           "SELECT identifier FROM " \o TableName("alts")
             \o " WHERE prefix = :prefix and alt = :alt;"
      [] op \in HelpOneOps ->
           "SELECT " \o Column(op) \o " FROM " \o TableName("derived")
             \o " WHERE prefix = '" \o args[1] \o "' and identifier = '" \o args[2]
             \o "';"
      [] op \in FetchManyOps ->
           "SELECT " \o ManyColumns(op) \o " FROM " \o TableName(ManyTable(op))
             \o " WHERE prefix = :prefix and identifier = :identifier;"
      [] op = "summarize" ->
           "SELECT prefix, identifier_count FROM " \o TableName(TableOf(args[1]))
             \o "_summary;"
      [] op = "count" /\ args[1] = "alts" ->
           "SELECT COUNT(*) FROM " \o TableName("alts") \o ";"
      [] op = "count" /\ args[1] = "prefixes" ->
           "SELECT COUNT(DISTINCT prefix) FROM " \o TableName("refs") \o "_summary;"
      [] op = "count" /\ args[1] \notin {"alts", "prefixes"} ->
           "SELECT SUM(identifier_count) FROM " \o TableName(TableOf(args[1]))
             \o "_summary;"

\* the text of the statement the call executes
SqlText(op, args) ==
    CASE op = "has_prefix" ->
           "SELECT EXISTS(SELECT 1 from " \o TableName("derived")
             \o " WHERE prefix = :prefix);"
      [] op = "get_primary_id" ->
           "SELECT identifier FROM " \o TableName("alts")
             \o " WHERE prefix = :prefix and alt = :alt;"
      [] op \in HelpOneOps ->
           "SELECT " \o Column(op) \o " FROM " \o TableName("derived")
             \o " WHERE prefix = :prefix and identifier = :identifier;"
      [] op \in FetchManyOps ->
           "SELECT " \o ManyColumns(op) \o " FROM " \o TableName(ManyTable(op))
             \o " WHERE prefix = :prefix and identifier = :identifier;"
      [] op = "summarize" ->
           "SELECT prefix, identifier_count FROM " \o TableName(TableOf(args[1]))
             \o "_summary;"
      [] op = "count" /\ args[1] = "alts" ->
           "SELECT COUNT(*) FROM " \o TableName("alts") \o ";"
      [] op = "count" /\ args[1] = "prefixes" ->
           "SELECT COUNT(DISTINCT prefix) FROM " \o TableName("refs") \o "_summary;"
      [] op = "count" /\ args[1] \notin {"alts", "prefixes"} ->
           "SELECT SUM(identifier_count) FROM " \o TableName(TableOf(args[1]))
             \o "_summary;"

\* the parameters bound to the statement
SqlParams(op, args) ==
    CASE op = "has_prefix"     -> [prefix |-> args[1]]
      [] op = "get_primary_id" -> [prefix |-> args[1], alt |-> args[2]]
      [] op \in HelpOneOps \cup FetchManyOps ->
           [prefix |-> args[1], identifier |-> args[2]]
      [] OTHER -> EmptyMap

\* the value the body of the method returns from the rows it fetched
Body(op, args) ==
    CASE op = "has_prefix"     -> PyBool(RawSQLBackend_has_prefix(args[1]))
      [] op = "get_primary_id" -> PyStr(RawSQLBackend_get_primary_id(args[1], args[2]))
      [] op \in HelpOneOps     -> PyStr(_help_one(Column(op), args[1], args[2]))
      [] op = "get_synonyms"   -> PyList(RawSQLBackend_get_synonyms(args[1], args[2]))
      [] op = "get_xrefs"      -> PyList(RawSQLBackend_get_xrefs(args[1], args[2]))
      [] op = "get_rels"       -> PyList(RawSQLBackend_get_rels(args[1], args[2]))
      [] op = "summarize"      -> PyDict(RawSQLBackend_summarize(args[1]))
      [] op = "count"          -> RawSQLBackend_count(args[1])

\* CachedFn with _fetchmany's callers memoized as _help_one's are
CachedFn_fetchmany_cached(op, args) ==
    CASE op \in {"has_prefix", "get_primary_id"} -> op
      [] op \in HelpOneOps \cup FetchManyOps -> "_help_one"
      [] op = "summarize"  -> "_get_summary"
      [] op = "count"      -> "count_" \o args[1]
      [] OTHER             -> None

\* the lru_cache-decorated function a call goes through, None if none
CachedFn(op, args) ==
    CASE op \in {"has_prefix", "get_primary_id"} -> op
      [] op \in HelpOneOps -> "_help_one"
      [] op = "summarize"  -> "_get_summary"
      [] op = "count"      -> "count_" \o args[1]
      [] OTHER             -> None

\* the key of _help_one without its column argument
CacheKey_no_column(self, op, args) == <<self>> \o args

\* the arguments of the decorated function, self first: the key of the entry
CacheKey(self, op, args) ==
    CASE op \in HelpOneOps -> <<self, Column(op)>> \o args
      [] op = "summarize"  -> <<self, TableName(TableOf(args[1]))>>
      [] op = "count"      -> <<self>>
      [] OTHER             -> <<self>> \o args

\* every cache holding one entry, as the count_* caches do
maxsize_one(fn) == 1

\* the maxsize of each decorator
maxsize(fn) ==
    CASE fn \in {"_get_summary", "has_prefix"}  -> 128
      [] fn \in {"get_primary_id", "_help_one"} -> 100000
      [] OTHER                                  -> 1

\* the keys of a cache, kept as a sequence of entries, least recent first
CacheKeys(entries) == { entries[k].key : k \in DOMAIN entries }

\* the entry of the key
CacheEntry(entries, key) ==
    entries[CHOOSE k \in DOMAIN entries : entries[k].key = key]

\* a hit moves the entry to the most recent end
lru_hit(entries, key) ==
    LET Other(e) == e.key # key
    IN Append(SelectSeq(entries, Other), CacheEntry(entries, key))

\* functools.lru_cache once the function has returned: nothing is stored
\* when the key is in the cache by now, and a full cache drops its least
\* recent entry
lru_store(entries, key, value, size) ==
    IF key \in CacheKeys(entries) THEN entries
    ELSE IF Len(entries) >= size
         THEN Append(Tail(entries), [key |-> key, value |-> value])
         ELSE Append(entries, [key |-> key, value |-> value])

\* a release on the normal path only
Release_unless_failed(n, how) == IF how = "failed" THEN n ELSE n - 1

\* the connections out of the engine after the with block of the call is
\* left, by return or by exception
Release(n, how) == n - 1

\* the variables the concurrent callers leave alone
corevars == <<variant, mem, db, pc, call, outcome, ret, getters, http>>

\* the record of a call that returned
Returned(self, op, args, value) ==
    [self |-> self, op |-> op, args |-> args, value |-> value]

\* a call of the method with these arguments has returned on the instance
HasReturned(self, op, args) ==
    \E r \in returned : r.self = self /\ r.op = op /\ r.args = args

\* caller t calls the method on the instance: the lru_cache wrapper looks
\* the key up; a hit returns the entry's value, a miss runs the body, which
\* enters with self.engine.connect() as connection
SqlCall(t, self, c) ==
    /\ thread[t].pc \in {"idle", "done"}
    /\ ncalls < MaxCalls
    /\ ncalls' = ncalls + 1
    /\ LET fn      == CachedFn(c.op, c.args)
           key     == CacheKey(self, c.op, c.args)
           hit     == fn # None /\ key \in CacheKeys(lru[fn])
           started == [ IdleThread EXCEPT !.self = self, !.op = c.op, !.args = c.args,
                          !.again = HasReturned(self, c.op, c.args) ]
       IN IF hit
          THEN /\ thread' = [ thread EXCEPT ![t] =
                                [ started EXCEPT !.pc = "done", !.outcome = "returned",
                                    !.ret = CacheEntry(lru[fn], key).value ] ]
               /\ lru' = [ lru EXCEPT ![fn] = lru_hit(@, key) ]
               /\ returned' = returned \cup
                    { Returned(self, c.op, c.args, CacheEntry(lru[fn], key).value) }
               /\ UNCHANGED held
          ELSE /\ thread' = [ thread EXCEPT ![t] = [ started EXCEPT !.pc = "connected" ] ]
               /\ held' = [ held EXCEPT ![self] = @ + 1 ]
               /\ UNCHANGED <<lru, returned>>
    /\ UNCHANGED corevars
    /\ UNCHANGED loadvars
    /\ UNCHANGED apivars

\* connection.execute(sql, params) and the fetch: the rows arrive, or the
\* storage layer raises
SqlExecute(t) ==
    /\ thread[t].pc = "connected"
    /\ \E next \in {"executed", "failed"} :
         thread' = [ thread EXCEPT
                       ![t].pc  = next,
                       ![t].sql = Append(@, [ sql    |-> SqlText(thread[t].op, thread[t].args),
                                              params |-> SqlParams(thread[t].op,
                                                                   thread[t].args) ]) ]
    /\ UNCHANGED <<lru, held, returned, ncalls>>
    /\ UNCHANGED corevars
    /\ UNCHANGED loadvars
    /\ UNCHANGED apivars

\* the with block is left and the method returns or raises; the wrapper
\* stores a returned value
SqlExit(t) ==
    LET self == thread[t].self
        op   == thread[t].op
        args == thread[t].args
        fn   == CachedFn(op, args)
        key  == CacheKey(self, op, args)
    IN
    /\ thread[t].pc \in {"executed", "failed"}
    /\ held' = [ held EXCEPT ![self] = Release(@, thread[t].pc) ]
    /\ IF thread[t].pc = "executed"
       THEN /\ thread' = [ thread EXCEPT ![t].pc = "done", ![t].outcome = "returned",
                                         ![t].ret = Body(op, args) ]
            /\ returned' = returned \cup { Returned(self, op, args, Body(op, args)) }
            /\ IF fn # None
               THEN lru' = [ lru EXCEPT ![fn] = lru_store(@, key, Body(op, args),
                                                         maxsize(fn)) ]
               ELSE UNCHANGED lru
       ELSE /\ thread' = [ thread EXCEPT ![t].pc = "done", ![t].outcome = "raised",
                                         ![t].ret = PyExc("OperationalError") ]
            /\ UNCHANGED <<lru, returned>>
    /\ UNCHANGED ncalls
    /\ UNCHANGED corevars
    /\ UNCHANGED loadvars
    /\ UNCHANGED apivars

\* two RawSQLBackend instances over one loaded database, empty or not
SqlInit ==
    /\ SqlIdle
    /\ LoadIdle
    /\ ApiIdle
    /\ variant = "sql"
    /\ mem = NoMem
    /\ \E full \in BOOLEAN :
         db = IF full
              THEN load(DataNames({"1"}, {}), "3" :> "1", "full")
              ELSE load(DataNames({}, {}), EmptyMap, "none")
    /\ pc = "idle"
    /\ call = NoCall
    /\ outcome = "none"
    /\ ret = PyNone
    /\ getters = <<>>
    /\ http = <<>>

SqlNext ==
    \E t \in Callers :
      \/ \E self \in Instances, c \in SqlCalls : SqlCall(t, self, c)
      \/ SqlExecute(t)
      \/ SqlExit(t)

SpecSQL == SqlInit /\ [][SqlNext]_vars

-----------------------------------------------------------------------------
(* RawSQLBackend warmed up by count_all, then asked its counts *)

\* get_app_from_backend calls count_all before the app serves: one caller
WarmCaller == 1

\* the count_* calls
WarmCalls == { [op |-> "count", args |-> <<count_all_calls[k]>>]
               : k \in DOMAIN count_all_calls }

\* the statement of a counter
CountStatement(attr) ==
    [ sql |-> SqlText("count", <<attr>>), params |-> SqlParams("count", <<attr>>) ]

\* count_all on the instance from its k-th counter on, st holding the caches,
\* the statements executed and the calls returned so far; the statement of
\* counter number fail raises (0: none does)
RECURSIVE count_all_from(_, _, _, _)
count_all_from(self, k, st, fail) ==
    IF k > Len(count_all_calls) \/ st.raised THEN st
    ELSE LET attr  == count_all_calls[k]
             fn    == CachedFn("count", <<attr>>)
             key   == CacheKey(self, "count", <<attr>>)
             value == Body("count", <<attr>>)
             after ==
               IF key \in CacheKeys(st.lru[fn])
               THEN [ st EXCEPT
                        !.lru[fn]  = lru_hit(@, key),
                        !.returned = @ \cup { Returned(self, "count", <<attr>>,
                                                       CacheEntry(st.lru[fn], key).value) } ]
               ELSE IF fail = k
               THEN [ st EXCEPT !.sql = Append(@, CountStatement(attr)),
                                !.raised = TRUE ]
               ELSE [ st EXCEPT
                        !.lru[fn]  = lru_store(@, key, value, maxsize(fn)),
                        !.sql      = Append(@, CountStatement(attr)),
                        !.returned = @ \cup { Returned(self, "count", <<attr>>, value) } ]
         IN count_all_from(self, k + 1, after, fail)

\* caller t calls count_all on the instance: the eight counters in order,
\* each through its lru_cache; a statement that raises ends the call
SqlCountAll(t, self) ==
    /\ thread[t].pc \in {"idle", "done"}
    /\ ncalls < MaxCalls
    /\ ncalls' = ncalls + 1
    /\ \E fail \in 0..Len(count_all_calls) :
         LET st == count_all_from(self, 1,
                                  [ lru |-> lru, sql |-> <<>>, returned |-> returned,
                                    raised |-> FALSE ], fail)
         IN /\ fail # 0 => st.raised
            /\ lru' = st.lru
            /\ returned' = IF st.raised THEN st.returned
                           ELSE st.returned \cup { Returned(self, "count_all", <<>>, PyNone) }
            /\ thread' = [ thread EXCEPT ![t] =
                             [ IdleThread EXCEPT
                                 !.pc = "done", !.self = self, !.op = "count_all",
                                 !.sql = st.sql,
                                 !.again = HasReturned(self, "count_all", <<>>),
                                 !.outcome = IF st.raised THEN "raised" ELSE "returned",
                                 !.ret = IF st.raised THEN PyExc("OperationalError")
                                         ELSE PyNone ] ]
    /\ UNCHANGED held
    /\ UNCHANGED corevars
    /\ UNCHANGED loadvars
    /\ UNCHANGED apivars

WarmNext ==
    \/ \E self \in Instances : SqlCountAll(WarmCaller, self)
    \/ \E self \in Instances, c \in WarmCalls : SqlCall(WarmCaller, self, c)
    \/ SqlExecute(WarmCaller)
    \/ SqlExit(WarmCaller)

SpecWarm == SqlInit /\ [][WarmNext]_vars

-----------------------------------------------------------------------------
(* Loading a mapping from a table or from a gzip TSV file *)

MaxRows == 3

\* the fields the records are drawn from; a value may be the empty string
RowPrefixes == {"go", "hgnc"}

RowIds == {"1", "2"}

RowValues == {"a", "b", ""}

Rows == [prefix : RowPrefixes, identifier : RowIds, name : RowValues]

\* the inputs: up to MaxRows records, pairs repeated and prefixes interleaved
RowSeqs == UNION { [1..n -> Rows] : n \in 0..MaxRows }

TAB == "\t"

NL == "\n"

Whitespace == {" ", TAB, NL}

\* the text of a field as tokens: none for the empty string, else the field
\* (the fields drawn contain no whitespace)
Chars(field) == IF field = "" THEN <<>> ELSE <<field>>

\* a row as a line of the TSV file
FileLine(row) ==
    Chars(row.prefix) \o <<TAB>> \o Chars(row.identifier) \o <<TAB>>
      \o Chars(row.name) \o <<NL>>

\* the lines of the file: the header, then one line per row
File(rs) ==
    << <<"prefix", TAB, "identifier", TAB, "name", NL>> >>
      \o [k \in 1..Len(rs) |-> FileLine(rs[k])]

RECURSIVE lstrip(_)
lstrip(line) ==
    IF line # <<>> /\ Head(line) \in Whitespace THEN lstrip(Tail(line)) ELSE line

RECURSIVE rstrip(_)
rstrip(line) ==
    IF line # <<>> /\ line[Len(line)] \in Whitespace
    THEN rstrip(SubSeq(line, 1, Len(line) - 1))
    ELSE line

\* str.strip(): the line without leading and trailing whitespace
strip(line) == rstrip(lstrip(line))

\* str.split(sep): the texts between the separators
RECURSIVE split(_, _)
split(line, sep) ==
    IF \E k \in 1..Len(line) : line[k] = sep
    THEN LET k == CHOOSE k \in 1..Len(line) :
                    line[k] = sep /\ \A j \in 1..(k - 1) : line[j] # sep
         IN << Join(SubSeq(line, 1, k - 1)) >>
              \o split(SubSeq(line, k + 1, Len(line)), sep)
    ELSE << Join(line) >>

\* mapping[prefix][identifier] = name, mapping a defaultdict(dict)
setitem(m, prefix, identifier, name) ==
    LET inner == IF prefix \in DOMAIN m THEN m[prefix] ELSE EmptyMap
    IN [ p \in DOMAIN m \cup {prefix} |->
           IF p = prefix
           THEN [ i \in DOMAIN inner \cup {identifier} |->
                    IF i = identifier THEN name ELSE inner[i] ]
           ELSE m[p] ]

\* _get_lookup_from_df: the empty mapping and the iterator over df.values
FromDfOpen ==
    /\ lpc = "idle"
    /\ source = "df"
    /\ lpc' = "loop"
    /\ lineno' = 1
    /\ mapping' = EmptyMap
    /\ UNCHANGED <<source, records>>
    /\ UNCHANGED corevars
    /\ UNCHANGED sqlvars
    /\ UNCHANGED apivars

\* one pass of the loop of _get_lookup_from_df
FromDfRow ==
    /\ lpc = "loop"
    /\ source = "df"
    /\ lineno <= Len(records)
    /\ mapping' = setitem(mapping, records[lineno].prefix,
                          records[lineno].identifier, records[lineno].name)
    /\ lineno' = lineno + 1
    /\ UNCHANGED <<source, records, lpc>>
    /\ UNCHANGED corevars
    /\ UNCHANGED sqlvars
    /\ UNCHANGED apivars

\* _get_lookup_from_path: the empty mapping, gzip.open, the header skipped
FromPathOpen ==
    /\ lpc = "idle"
    /\ source = "path"
    /\ lpc' = "loop"
    /\ lineno' = 2
    /\ mapping' = EmptyMap
    /\ UNCHANGED <<source, records>>
    /\ UNCHANGED corevars
    /\ UNCHANGED sqlvars
    /\ UNCHANGED apivars

\* one pass of the loop of _get_lookup_from_path: the line is stripped,
\* split at the tabs and unpacked into three names (ValueError otherwise)
FromPathLine ==
    /\ lpc = "loop"
    /\ source = "path"
    /\ lineno <= Len(File(records))
    /\ LET fields == split(strip(File(records)[lineno]), TAB)
       IN IF Len(fields) = 3
          THEN /\ mapping' = setitem(mapping, fields[1], fields[2], fields[3])
               /\ lineno' = lineno + 1
               /\ lpc' = "loop"
          ELSE /\ lpc' = "raised"
               /\ UNCHANGED <<mapping, lineno>>
    /\ UNCHANGED <<source, records>>
    /\ UNCHANGED corevars
    /\ UNCHANGED sqlvars
    /\ UNCHANGED apivars

\* the loop is over: return dict(mapping)
LoaderReturn ==
    /\ lpc = "loop"
    /\ lineno > Len(IF source = "df" THEN records ELSE File(records))
    /\ lpc' = "returned"
    /\ UNCHANGED <<source, records, lineno, mapping>>
    /\ UNCHANGED corevars
    /\ UNCHANGED sqlvars
    /\ UNCHANGED apivars

\* a loader called with a table or with the path of a file of the records
LoadInit ==
    /\ SqlIdle
    /\ ApiIdle
    /\ variant = "lazy"
    /\ mem = NoMem
    /\ db = NoDb
    /\ pc = "idle"
    /\ call = NoCall
    /\ outcome = "none"
    /\ ret = PyNone
    /\ getters = <<>>
    /\ http = <<>>
    /\ source \in {"df", "path"}
    /\ records \in RowSeqs
    /\ lpc = "idle"
    /\ lineno = 1
    /\ mapping = EmptyMap

LoadNext ==
    \/ FromDfOpen
    \/ FromDfRow
    \/ FromPathOpen
    \/ FromPathLine
    \/ LoaderReturn

SpecLoad == LoadInit /\ [][LoadNext]_vars

-----------------------------------------------------------------------------
(* api.lookup and the default backend *)

\* the body of _get_default_backend: the class of the backend it
\* constructs, None when it raises RuntimeError
_get_default_backend_remote_first(remote_fallback, uri) ==
    IF remote_fallback THEN "RemoteBackend"
    ELSE IF uri # None THEN "RawSQLBackend"
    ELSE None

_get_default_backend(remote_fallback, uri) ==
    IF uri # None THEN "RawSQLBackend"
    ELSE IF remote_fallback THEN "RemoteBackend"
    ELSE None

\* api.lookup(curie, remote_fallback): the backend comes from
\* _get_default_backend under lru_cache(maxsize=2), keyed by the keyword
\* argument; the body runs on a miss only, and only a returned backend is
\* stored; then the backend's lookup runs, and returns or raises (an
\* HTTPError of a RemoteBackend, an OperationalError of a RawSQLBackend)
ApiLookup ==
    /\ api.pc = "idle"
    /\ \E remote_fallback \in BOOLEAN, how \in {"returned", "raised"} :
         LET key     == <<remote_fallback>>
             hit     == key \in CacheKeys(default_backend)
             uri     == config
             class   == _get_default_backend(remote_fallback, uri)
             backend == IF hit
                        THEN CacheEntry(default_backend, key).value
                        ELSE IF class = None THEN NoBackend
                        ELSE [ id |-> made + 1, class |-> class ]
             failed  == backend = NoBackend
         IN /\ failed => how = "raised"
            /\ default_backend' =
                 IF hit THEN lru_hit(default_backend, key)
                 ELSE IF failed THEN default_backend
                 ELSE lru_store(default_backend, key, backend, 2)
            /\ made' = IF hit \/ failed THEN made ELSE made + 1
            /\ selected' = selected \cup
                 { [ remote_fallback |-> remote_fallback,
                     backend         |-> backend ] }
            /\ api' = [ pc              |-> "done",
                        remote_fallback |-> remote_fallback,
                        hit             |-> hit,
                        uri             |-> IF hit THEN None ELSE uri,
                        backend         |-> backend,
                        outcome         |-> how,
                        exc             |-> IF failed THEN "RuntimeError"
                                            ELSE IF how = "raised"
                                            THEN "raised by backend.lookup"
                                            ELSE None ]
    /\ UNCHANGED config
    /\ UNCHANGED corevars
    /\ UNCHANGED sqlvars
    /\ UNCHANGED loadvars

\* the caller has the result, or the exception, of api.lookup
ApiReturn ==
    /\ api.pc = "done"
    /\ api' = NoApiCall
    /\ UNCHANGED <<config, default_backend, made, selected>>
    /\ UNCHANGED corevars
    /\ UNCHANGED sqlvars
    /\ UNCHANGED loadvars

\* the environment sets or unsets BIOLOOKUP_SQLALCHEMY_URI between two
\* calls; pystow.get_config reads it at every call
SetConfig ==
    /\ api.pc = "idle"
    /\ \E uri \in {None, "postgresql://localhost/biolookup"} \ {config} :
         config' = uri
    /\ UNCHANGED <<default_backend, made, selected, api>>
    /\ UNCHANGED corevars
    /\ UNCHANGED sqlvars
    /\ UNCHANGED loadvars

\* api.py as imported, with or without a configured sqlalchemy_uri
ApiInit ==
    /\ SqlIdle
    /\ LoadIdle
    /\ variant = "lazy"
    /\ mem = NoMem
    /\ db = NoDb
    /\ pc = "idle"
    /\ call = NoCall
    /\ outcome = "none"
    /\ ret = PyNone
    /\ getters = <<>>
    /\ http = <<>>
    /\ config \in {None, "postgresql://localhost/biolookup"}
    /\ default_backend = <<>>
    /\ made = 0
    /\ selected = {}
    /\ api = NoApiCall

ApiNext ==
    \/ ApiLookup
    \/ ApiReturn
    \/ SetConfig

SpecApi == ApiInit /\ [][ApiNext]_vars

-----------------------------------------------------------------------------
(* What the backend stores, read off its storage *)

\* the backend is one that inherits Backend.lookup and has the getters
Local == variant \in {"eager", "lazy", "sql"}

\* a name is stored for (p, i)
HasName(p, i) ==
    CASE Class = "MemoryBackend" ->
           /\ p \in DOMAIN mem.get_id_name_mapping
           /\ i \in DOMAIN mem.get_id_name_mapping[p]
      [] Class = "RawSQLBackend" ->
           \E r \in db.derived : r.prefix = p /\ r.identifier = i
      [] OTHER -> FALSE

\* a is stored as an alternate id of some primary id under p
IsAlt(p, a) ==
    CASE Class = "MemoryBackend" ->
           /\ p \in DOMAIN mem.get_alts_to_id
           /\ a \in DOMAIN mem.get_alts_to_id[p]
      [] Class = "RawSQLBackend" ->
           \E r \in db.alts : r.prefix = p /\ r.alt = a
      [] OTHER -> FALSE

\* the primary id a is stored as an alternate of
PrimaryOf(p, a) ==
    CASE Class = "MemoryBackend" -> mem.get_alts_to_id[p][a]
      [] Class = "RawSQLBackend" ->
           (CHOOSE r \in db.alts : r.prefix = p /\ r.alt = a).identifier

\* the call that returned is lookup of the CURIE p:i
LookedUp(p, i) ==
    /\ pc = "done"
    /\ call.op = "lookup"
    /\ call.curie = <<p, ":", i>>

\* the call that returned is op(p, i)
Got(op, p, i) ==
    /\ pc = "done"
    /\ call.op = op
    /\ call.prefix = p
    /\ call.identifier = i

-----------------------------------------------------------------------------
(* Claims *)

\* C1: on MemoryBackend and RawSQLBackend, for every loaded (prefix,
\* identifier) with a name n, get_name(prefix, identifier) returns exactly n,
\* and lookup("prefix:identifier") returns success=true with that prefix,
\* identifier and name and with query equal to the input string.
C1_NameOfLoaded ==
    \A p \in DataPrefixes, i \in Ids :
      Local /\ HasName(p, i) =>
        /\ Got("get_name", p, i) =>
             outcome = "returned" /\ ret = PyStr(NameOf(p, i))
        /\ LookedUp(p, i) =>
             /\ outcome = "returned"
             /\ ret.t = "dict"
             /\ ret.d.success = TRUE
             /\ ret.d.prefix = p
             /\ ret.d.identifier = i
             /\ ret.d.name = NameOf(p, i)
             /\ ret.d.query = <<p, ":", i>>

\* a RawSQLBackend looked up a stored record of a prefix with several records
C1_Witness ==
    /\ variant = "sql"
    /\ LookedUp("go", "2")
    /\ HasName("go", "2")
    /\ HasName("go", "1")

HoldsPrefix(p) ==
    CASE Class = "MemoryBackend" -> p \in DOMAIN mem.get_id_name_mapping
      [] Class = "RawSQLBackend" -> \E r \in db.derived : r.prefix = p
      [] OTHER -> FALSE

\* the result of the lookup that returned and the result other agree on the
\* field: both lack it or both hold the same value
SameField(other, key) ==
    /\ key \in DOMAIN ret.d <=> key \in DOMAIN other
    /\ key \in DOMAIN ret.d => ret.d[key] = other[key]

\* the fields of C2's result for the alternate id a of p under x
C2_Redirected(x, a) ==
    /\ outcome = "returned"
    /\ ret.t = "dict"
    /\ ret.d.success = TRUE
    /\ ret.d.identifier = PrimaryOf(x, a)
    /\ ret.d.query = <<x, ":", a>>
    /\ SameField(Backend_lookup(<<x, ":", PrimaryOf(x, a)>>, TRUE).rv, "name")
    /\ SameField(Backend_lookup(<<x, ":", PrimaryOf(x, a)>>, TRUE).rv, "definition")

\* C2 as claimed: for every alternate id a that maps to primary id p under
\* prefix x, a having no name of its own, lookup("x:a") with
\* resolve_alternate=true returns success=true with identifier p, query
\* "x:a" and the name and definition of lookup("x:p").
C2_Original ==
    \A x \in DataPrefixes, a \in Ids :
      Local /\ LookedUp(x, a) /\ call.resolve_alternate
            /\ IsAlt(x, a) /\ ~HasName(x, a)
        => C2_Redirected(x, a)

\* C2 (amended): the same, for the alternate ids whose primary id p has a
\* name stored; the name returned is the one stored for p.
C2_RedirectToNamed ==
    \A x \in DataPrefixes, a \in Ids :
      Local /\ LookedUp(x, a) /\ call.resolve_alternate
            /\ IsAlt(x, a) /\ ~HasName(x, a) /\ HasName(x, PrimaryOf(x, a))
        => C2_Redirected(x, a) /\ ret.d.name = NameOf(x, PrimaryOf(x, a))

\* an eager MemoryBackend looked up the nameless alternate id 2 of go:1,
\* which has a name and a definition
C2_Witness ==
    /\ variant = "eager"
    /\ LookedUp("go", "2")
    /\ call.resolve_alternate
    /\ IsAlt("go", "2")
    /\ ~HasName("go", "2")
    /\ PrimaryOf("go", "2") = "1"
    /\ HasName("go", "1")
    /\ "definition" \in DOMAIN ret.d

\* the normalizer cannot parse the CURIE
Unparsed(curie) == parse_curie(curie)[1] = None \/ parse_curie(curie)[2] = None

\* C4 as claimed: on every backend, lookup of a CURIE the normalizer cannot
\* parse returns success=false, message "could not identify prefix", the
\* original query and no prefix, identifier or providers, and calls no getter.
C4_Original ==
    pc = "done" /\ call.op = "lookup" /\ Unparsed(call.curie) =>
      /\ outcome = "returned"
      /\ ret.t = "dict"
      /\ ret.d.success = FALSE
      /\ ret.d.message = "could not identify prefix"
      /\ ret.d.query = call.curie
      /\ DOMAIN ret.d \cap {"prefix", "identifier", "providers"} = {}
      /\ getters = <<>>

\* C4 (amended): on MemoryBackend and RawSQLBackend, which inherit
\* Backend.lookup, such a lookup returns success=false, the message
\* "Could not identify prefix", the original query and no prefix, identifier
\* or providers, and calls no getter.
C4_UnparsedLocal ==
    Local /\ pc = "done" /\ call.op = "lookup" /\ Unparsed(call.curie) =>
      /\ outcome = "returned"
      /\ ret.t = "dict"
      /\ ret.d.success = FALSE
      /\ ret.d.message = "Could not identify prefix"
      /\ ret.d.query = call.curie
      /\ DOMAIN ret.d \cap {"prefix", "identifier", "providers"} = {}
      /\ getters = <<>>

\* a lazy MemoryBackend looked up the empty string
C4_Witness ==
    /\ variant = "lazy"
    /\ pc = "done"
    /\ call.op = "lookup"
    /\ call.curie = <<>>

\* C5: on MemoryBackend and RawSQLBackend alike, lookup of a CURIE whose
\* prefix parses but for which the backend holds no data returns
\* success=false with the missing-prefix message for that prefix (not the
\* unknown-identifier message) and the parsed prefix, identifier and
\* providers.
C5_MissingPrefix ==
    \A p \in QueryPrefixes, i \in Ids :
      Local /\ LookedUp(p, i) /\ ~HoldsPrefix(p) =>
        /\ outcome = "returned"
        /\ ret.t = "dict"
        /\ ret.d.success = FALSE
        /\ ret.d.message = "Could not find id->name mapping for " \o p
        /\ ret.d.prefix = p
        /\ ret.d.identifier = i
        /\ ret.d.providers = get_providers(p, i)

\* the identifier lookup ends with: the primary id of a nameless alternate
\* id when redirection is asked for, the parsed id otherwise
FinalId(p, i, resolve_alternate) ==
    IF resolve_alternate /\ ~HasName(p, i) /\ IsAlt(p, i) THEN PrimaryOf(p, i) ELSE i

\* the fields of C6's result, but for its message
C6_Failure(p, i) ==
    /\ outcome = "returned"
    /\ ret.t = "dict"
    /\ ret.d.success = FALSE
    /\ ret.d.prefix = p
    /\ "providers" \in DOMAIN ret.d
    /\ ret.d.identifier = FinalId(p, i, call.resolve_alternate)
    /\ DOMAIN ret.d \cap {"name", "definition", "species", "synonyms", "xrefs",
                          "relations"} = {}

\* C6 as claimed: when the prefix is present and no name is found after the
\* optional redirection, lookup returns success=false with message
\* "could not look up identifier", the prefix, the providers, the redirected
\* (else the parsed) identifier, and no name or attribute.
C6_Original ==
    \A p \in DataPrefixes, i \in Ids :
      Local /\ LookedUp(p, i) /\ HoldsPrefix(p)
            /\ ~HasName(p, FinalId(p, i, call.resolve_alternate))
        => C6_Failure(p, i) /\ ret.d.message = "could not look up identifier"

\* C6 (amended): the same, with the message "Could not look up identifier".
C6_UnknownIdentifier ==
    \A p \in DataPrefixes, i \in Ids :
      Local /\ LookedUp(p, i) /\ HoldsPrefix(p)
            /\ ~HasName(p, FinalId(p, i, call.resolve_alternate))
        => C6_Failure(p, i) /\ ret.d.message = "Could not look up identifier"

\* a RawSQLBackend looked up go:3, an alternate id of go:2, which has no
\* name, under a prefix that has records
C6_Witness ==
    /\ variant = "sql"
    /\ LookedUp("go", "3")
    /\ call.resolve_alternate
    /\ IsAlt("go", "3")
    /\ PrimaryOf("go", "3") = "2"
    /\ ~HasName("go", "2")
    /\ ~HasName("go", "3")
    /\ HasName("go", "1")


\* the result carries the key exactly when the getter's value is non-empty,
\* and then carries that value
C7_Attached(key, value, nonempty) ==
    /\ key \in DOMAIN ret.d <=> nonempty
    /\ key \in DOMAIN ret.d => ret.d[key] = value

\* C7: in every successful result of Backend.lookup, each of definition,
\* species, synonyms, xrefs and relations is present if and only if its
\* getter returns a non-empty value for the final identifier; no result
\* holds one of these keys with a null, empty-string or empty-list value.
C7_AttributesIffNonEmpty ==
    Local /\ pc = "done" /\ call.op = "lookup" /\ outcome = "returned" =>
      /\ ret.d.success =>
           LET p          == ret.d.prefix
               i          == ret.d.identifier
               definition == self_get_definition(p, i)
               species    == self_get_species(p, i)
               synonyms   == self_get_synonyms(p, i)
               xrefs      == self_get_xrefs(p, i)
               rels       == self_get_rels(p, i)
           IN /\ C7_Attached("definition", definition,
                             definition # None /\ definition # "")
              /\ C7_Attached("species", species, species # None /\ species # "")
              /\ C7_Attached("synonyms", synonyms, synonyms # <<>>)
              /\ C7_Attached("xrefs", xrefs, xrefs # <<>>)
              /\ C7_Attached("relations", rels, rels # <<>>)
      /\ \A key \in {"definition", "species"} \cap DOMAIN ret.d :
           ret.d[key] # None /\ ret.d[key] # ""
      /\ \A key \in {"synonyms", "xrefs", "relations"} \cap DOMAIN ret.d :
           ret.d[key] # <<>>

\* an eager MemoryBackend found go:2, whose stored definition is the empty
\* string and whose stored synonym list is empty
C7_Witness ==
    /\ variant = "eager"
    /\ LookedUp("go", "2")
    /\ outcome = "returned"
    /\ ret.d.success
    /\ self_get_definition("go", "2") = ""
    /\ self_get_synonyms("go", "2") = <<>>
    /\ "definition" \notin DOMAIN ret.d

\* C8: on MemoryBackend and RawSQLBackend, for every prefix, has_prefix
\* returns true if and only if the storage holds a record for the prefix
\* (MemoryBackend: the name provider has a mapping for it); in particular
\* RawSQLBackend.has_prefix returns false when the derived table has no row
\* with that prefix.
C8_HasPrefixIffStored ==
    \A p \in QueryPrefixes :
      Local /\ pc = "done" /\ call.op = "has_prefix" /\ call.prefix = p =>
        /\ outcome = "returned"
        /\ ret.t = "bool"
        /\ ret.b <=> HoldsPrefix(p)

\* C9: on MemoryBackend and RawSQLBackend, lookup returns a result for
\* every input string and every value of resolve_alternate; an unparseable
\* CURIE, an unknown prefix and an unknown identifier are results with
\* success=false and a message, never a raised exception.
C9_LookupReturns ==
    Local /\ pc = "done" /\ call.op = "lookup" =>
      /\ outcome = "returned"
      /\ ret.t = "dict"
      /\ {"query", "success"} \subseteq DOMAIN ret.d
      /\ ret.d.query = call.curie
      /\ LET parsed == parse_curie(call.curie)
         IN \/ Unparsed(call.curie)
            \/ ~HoldsPrefix(parsed[1])
            \/ ~HasName(parsed[1], FinalId(parsed[1], parsed[2], call.resolve_alternate))
            => ret.d.success = FALSE /\ "message" \in DOMAIN ret.d

\* a RawSQLBackend without doid looked up doid:1 and reported a failure
C9_Witness ==
    /\ variant = "sql"
    /\ LookedUp("doid", "1")
    /\ outcome = "returned"
    /\ ret.d.success = FALSE
    /\ HasName("go", "1")

\* C10: on MemoryBackend and RawSQLBackend, for every loaded dataset
\* (including one with no records in the table concerned) and each of names,
\* alts, definitions, species, synonyms, xrefs and rels, count_* returns the
\* sum of the values of the matching summarize_* mapping.
C10_CountIsSumOfSummary ==
    \A attr \in Attrs :
      Local /\ pc = "done" /\ call.op = "count" /\ call.attr = attr =>
        /\ outcome = "returned"
        /\ ~Raises("summarize_" \o attr)
        /\ ret = PyInt(SumValues(self_summarize(attr)))


\* C11: on MemoryBackend and RawSQLBackend, each of summarize_names, alts,
\* definitions, species, synonyms, xrefs and rels returns a mapping and
\* never fails; MemoryBackend.summarize_xrefs() and summarize_rels() return
\* the empty mapping, and summary_df() on a MemoryBackend completes.
C11_SummariesNeverFail ==
    /\ Local /\ pc = "done" /\ call.op = "summarize" =>
         /\ outcome = "returned"
         /\ ret.t = "dict"
         /\ Class = "MemoryBackend" /\ call.attr \in {"xrefs", "rels"} =>
              ret.d = EmptyMap
    /\ Class = "MemoryBackend" /\ pc = "done" /\ call.op = "summary_df" =>
         outcome = "returned"


-----------------------------------------------------------------------------
(* Claims about RawSQLBackend under concurrent callers *)

\* caller t's call has returned a value
SqlDone(t) == thread[t].pc = "done" /\ thread[t].outcome = "returned"

\* caller t's call goes through an lru_cache
Memoized(t) == CachedFn(thread[t].op, thread[t].args) # None

\* r records a call of the method caller t called, same instance and arguments
SameCall(r, t) ==
    r.self = thread[t].self /\ r.op = thread[t].op /\ r.args = thread[t].args

\* C12: a memoized RawSQLBackend getter called again with identical
\* arguments returns the value every earlier such call returned, and
\* repeating a call changes the result of no getter: every memoized call
\* returns what the stored data gives for its arguments, whatever was
\* called before.
C12_RepeatedCallSame ==
    /\ \A t \in Callers :
         SqlDone(t) /\ Memoized(t) =>
           \A r \in returned : SameCall(r, t) => r.value = thread[t].ret
    /\ \A r \in returned :
         CachedFn(r.op, r.args) # None => r.value = Body(r.op, r.args)

\* a caller's second get_name("go", "1") on instance a was answered from
\* the cache with the stored name
C12_Witness ==
    \E t \in Callers :
      /\ SqlDone(t)
      /\ thread[t].again
      /\ thread[t].self = "a"
      /\ thread[t].op = "get_name"
      /\ thread[t].args = <<"go", "1">>
      /\ thread[t].sql = <<>>
      /\ thread[t].ret = PyStr(NameOf("go", "1"))


\* C13: on one RawSQLBackend instance, once a memoized call has returned
\* for given arguments, every later call with the same arguments on that
\* instance returns the stored value without issuing another SQL statement,
\* whatever other calls, with other arguments or on other instances, happen
\* in between.
C13_MemoizedForLife ==
    \A t \in Callers :
      Memoized(t) /\ thread[t].again /\ thread[t].pc # "idle" =>
        /\ SqlDone(t)
        /\ thread[t].sql = <<>>
        /\ \A r \in returned : SameCall(r, t) => r.value = thread[t].ret


\* the statement text of get_synonyms, get_xrefs and get_rels over the
\* default tables
C14_Text(op) ==
    CASE op = "get_synonyms" ->
           "SELECT synonym FROM synonyms WHERE prefix = :prefix and identifier = :identifier;"
      [] op = "get_xrefs" ->
           "SELECT xref_prefix, xref_identifier, provenance FROM xrefs WHERE prefix = :prefix and identifier = :identifier;"
      [] op = "get_rels" ->
           "SELECT relation_prefix, relation_identifier, target_prefix, target_identifier FROM relations WHERE prefix = :prefix and identifier = :identifier;"

\* the rows the table of the method stores for (prefix, identifier)
C14_Rows(op, prefix, identifier) ==
    LET Match(r) == r.prefix = prefix /\ r.identifier = identifier
    IN SelectSeq(db[ManyTable(op)], Match)

\* C14: RawSQLBackend.get_synonyms, get_xrefs and get_rels are not
\* memoized: every call, a repeated one included, issues exactly one SQL
\* statement against the synonyms, xrefs or relations table and returns the
\* rows stored for (prefix, identifier), the empty list when there are none.
C14_FetchManyNotMemoized ==
    \A t \in Callers :
      thread[t].op \in FetchManyOps /\ thread[t].pc = "done" =>
        /\ Len(thread[t].sql) = 1
        /\ thread[t].sql[1].sql = C14_Text(thread[t].op)
        /\ thread[t].sql[1].params =
             [prefix |-> thread[t].args[1], identifier |-> thread[t].args[2]]
        /\ thread[t].outcome = "returned" =>
             LET rows == C14_Rows(thread[t].op, thread[t].args[1], thread[t].args[2])
             IN /\ thread[t].ret.t = "list"
                /\ Len(thread[t].ret.l) = Len(rows)
                /\ rows = <<>> => thread[t].ret.l = <<>>
                /\ thread[t].op = "get_synonyms" =>
                     \A k \in DOMAIN rows : thread[t].ret.l[k] = rows[k].synonym
                /\ thread[t].op = "get_xrefs" =>
                     \A k \in DOMAIN rows :
                       thread[t].ret.l[k].xref_identifier = rows[k].xref_identifier
                /\ thread[t].op = "get_rels" =>
                     \A k \in DOMAIN rows :
                       thread[t].ret.l[k].target_identifier = rows[k].target_identifier

\* a caller's second get_synonyms("go", "1") on instance a executed its
\* statement again and returned the two stored synonyms
C14_Witness ==
    \E t \in Callers :
      /\ SqlDone(t)
      /\ thread[t].again
      /\ thread[t].self = "a"
      /\ thread[t].op = "get_synonyms"
      /\ thread[t].args = <<"go", "1">>
      /\ Len(thread[t].sql) = 1
      /\ thread[t].ret = PyList(<<"syn_a", "syn_b">>)


\* the callers inside the with block of a call on the instance
InWith(i) ==
    { t \in Callers : thread[t].self = i /\ thread[t].pc \in {"connected", "executed", "failed"} }

\* C15: every RawSQLBackend read operation acquires one connection and
\* releases it before returning, on the normal and on the exception path:
\* the connections out of an engine are those of the calls in progress, one
\* each, so none is held when no call is in progress and none is held
\* across two calls.
C15_ConnectionPerCall ==
    /\ \A i \in Instances : held[i] = Cardinality(InWith(i))
    /\ (\A t \in Callers : thread[t].pc \in {"idle", "done"}) =>
         \A i \in Instances : held[i] = 0

\* a call on instance a ended with an exception of the storage layer after
\* its statement was executed, while the other caller is between calls
C15_Witness ==
    \E t \in Callers :
      /\ thread[t].pc = "done"
      /\ thread[t].outcome = "raised"
      /\ thread[t].self = "a"
      /\ Len(thread[t].sql) = 1
      /\ \A u \in Callers : thread[u].pc \in {"idle", "done"}
      /\ held["a"] = 0


\* the entry the record's call is stored under is in its cache
StillCached(r) ==
    CacheKey(r.self, r.op, r.args) \in CacheKeys(lru[CachedFn(r.op, r.args)])

\* C16: when several callers concurrently invoke the same memoized getter
\* with the same arguments on one shared instance over an unchanging
\* dataset, each caller receives the value a single sequential call returns;
\* a race on the first population may run the query more than once, but a
\* cache never holds a key twice or a value other than the one returned for
\* it, and no entry of another key is lost.
C16_RaceOnPopulation ==
    /\ \A t, u \in Callers :
         t # u /\ Memoized(t) /\ SqlDone(t) /\ SqlDone(u)
               /\ thread[t].self = thread[u].self /\ thread[t].op = thread[u].op
               /\ thread[t].args = thread[u].args
           => /\ thread[t].ret = thread[u].ret
              /\ thread[t].ret = Body(thread[t].op, thread[t].args)
    /\ \A fn \in lru_caches :
         /\ \A j, k \in DOMAIN lru[fn] : lru[fn][j].key = lru[fn][k].key => j = k
         /\ Len(lru[fn]) <= maxsize(fn)
    /\ \A r \in returned :
         CachedFn(r.op, r.args) # None =>
           /\ StillCached(r) =>
                CacheEntry(lru[CachedFn(r.op, r.args)],
                           CacheKey(r.self, r.op, r.args)).value = r.value
           /\ r.op # "count" => StillCached(r)
           /\ r.op = "count" /\ (\A q \in returned :
                                   q.op = r.op /\ q.args = r.args => q.self = r.self)
                => StillCached(r)

\* both callers ran get_name("go", "1") on instance a at the same time: each
\* executed the statement, and the cache holds the name once
C16_Witness ==
    /\ \A t \in Callers :
         /\ SqlDone(t)
         /\ ~thread[t].again
         /\ thread[t].self = "a"
         /\ thread[t].op = "get_name"
         /\ thread[t].args = <<"go", "1">>
         /\ Len(thread[t].sql) = 1
         /\ thread[t].ret = PyStr(NameOf("go", "1"))
    /\ Len(lru["_help_one"]) = 1


\* the statement text of the methods that take a prefix or an identifier,
\* over the default tables (the source's line breaks read as one space)
C17_Text(op) ==
    CASE op = "has_prefix" ->
           "SELECT EXISTS(SELECT 1 from entities WHERE prefix = :prefix);"
      [] op = "get_primary_id" ->
           "SELECT identifier FROM obo_alt WHERE prefix = :prefix and alt = :alt;"
      [] op = "get_name" ->
           "SELECT name FROM entities WHERE prefix = :prefix and identifier = :identifier;"
      [] op = "get_species" ->
           "SELECT species FROM entities WHERE prefix = :prefix and identifier = :identifier;"
      [] op = "get_definition" ->
           "SELECT definition FROM entities WHERE prefix = :prefix and identifier = :identifier;"
      [] op \in FetchManyOps -> C14_Text(op)

\* the arguments of the call, as the values of the statement's parameters
C17_Bound(t) ==
    LET params == thread[t].sql[1].params
    IN CASE thread[t].op = "has_prefix" ->
              DOMAIN params = {"prefix"} /\ params.prefix = thread[t].args[1]
         [] thread[t].op = "get_primary_id" ->
              /\ DOMAIN params = {"prefix", "alt"}
              /\ params.prefix = thread[t].args[1]
              /\ params.alt = thread[t].args[2]
         [] thread[t].op \in HelpOneOps \cup FetchManyOps ->
              /\ DOMAIN params = {"prefix", "identifier"}
              /\ params.prefix = thread[t].args[1]
              /\ params.identifier = thread[t].args[2]
         [] OTHER -> DOMAIN params = {}

\* C17: the SQL text of every statement a RawSQLBackend read operation
\* issues depends only on the configured table names and the fixed column
\* names: calls of a method that differ only in the prefix and identifier
\* arguments issue the same text, and prefix and identifier reach the
\* database only as bound parameters.
C17_SqlTextFixed ==
    /\ \A t \in Callers :
         thread[t].sql # <<>> =>
           /\ Len(thread[t].sql) = 1
           /\ thread[t].op \notin {"summarize", "count"} =>
                thread[t].sql[1].sql = C17_Text(thread[t].op)
           /\ C17_Bound(t)
    /\ \A t, u \in Callers :
         /\ thread[t].sql # <<>>
         /\ thread[u].sql # <<>>
         /\ thread[t].op = thread[u].op
         /\ thread[t].op \in {"summarize", "count"} => thread[t].args = thread[u].args
         => thread[t].sql[1].sql = thread[u].sql[1].sql

\* the two callers ran get_name for go:1 and for go:3: the same text, the
\* identifiers in the parameters
C17_Witness ==
    \E t, u \in Callers :
      /\ thread[t].op = "get_name" /\ thread[t].args = <<"go", "1">>
      /\ thread[u].op = "get_name" /\ thread[u].args = <<"go", "3">>
      /\ thread[t].sql # <<>>
      /\ thread[u].sql # <<>>
      /\ thread[t].sql[1].sql = thread[u].sql[1].sql
      /\ thread[t].sql[1].params.identifier = "1"
      /\ thread[u].sql[1].params.identifier = "3"


-----------------------------------------------------------------------------
(* Claims about RemoteBackend *)

\* a RemoteBackend.lookup call has ended
RemoteDone == pc = "done" /\ variant = "remote" /\ call.op = "lookup"

\* C18: each RemoteBackend.lookup(curie) issues exactly one HTTP GET to
\* {base_url}/{endpoint}/{curie}; on a non-success status it raises without
\* a second request, on success it returns the parsed response body; no
\* local getter (has_prefix, get_name, get_primary_id) is consulted.
C18_OneGet ==
    RemoteDone =>
      /\ Len(http) = 1
      /\ http[1].method = "GET"
      /\ http[1].url = "http://biolookup.io/api/lookup/" \o Join(call.curie)
      /\ getters = <<>>
      /\ outcome = "raised" => ret = PyExc("HTTPError")
      /\ outcome = "returned" =>
           /\ ret.t = "dict"
           /\ ret.d \in RemoteBodies(call.curie)

\* the remote answered a lookup with an error status: one request, raised
C18_Witness ==
    /\ RemoteDone
    /\ outcome = "raised"
    /\ Len(http) = 1
    /\ call.curie # <<>>


-----------------------------------------------------------------------------
(* Claims about loading a mapping *)

\* the records of the input that have the pair (p, i)
C19_RowsOf(p, i) ==
    { k \in 1..Len(records) : records[k].prefix = p /\ records[k].identifier = i }

\* the last of them
C19_Last(p, i) ==
    CHOOSE k \in C19_RowsOf(p, i) : \A j \in C19_RowsOf(p, i) : j <= k

\* C19: loading a sequence of (prefix, identifier, value) records from a gzip
\* TSV path or from a 3-column table produces a mapping in which every
\* (prefix, identifier) of the input has the value of the last row with that
\* pair, a prefix is a key iff at least one row has it and no other entries
\* exist, whatever records of other prefixes lie in between.
C19_LastRowWins ==
    /\ lpc # "raised"
    /\ lpc = "returned" =>
         /\ DOMAIN mapping = { records[k].prefix : k \in 1..Len(records) }
         /\ \A p \in DOMAIN mapping :
              DOMAIN mapping[p] =
                { records[k].identifier :
                    k \in { j \in 1..Len(records) : records[j].prefix = p } }
         /\ \A k \in 1..Len(records) :
              mapping[records[k].prefix][records[k].identifier]
                = records[C19_Last(records[k].prefix, records[k].identifier)].name


-----------------------------------------------------------------------------
(* Claims about the prefixes of a MemoryBackend *)

\* the backend is a MemoryBackend
InMemory == variant \in {"eager", "lazy"}

\* the name provider returns a mapping for p, and the mapping is empty
EmptyNames(p) ==
    /\ p \in DOMAIN mem.get_id_name_mapping
    /\ mem.get_id_name_mapping[p] = EmptyMap

\* has_prefix answers by the name provider alone
C20_HasPrefix ==
    InMemory /\ pc = "done" /\ call.op = "has_prefix" =>
      /\ outcome = "returned"
      /\ ret = PyBool(call.prefix \in DOMAIN mem.get_id_name_mapping)

\* the failure of a lookup under a prefix with an empty name mapping
C20_Failure(p, i, message) ==
    InMemory /\ LookedUp(p, i) /\ EmptyNames(p) =>
      /\ outcome = "returned"
      /\ ret.t = "dict"
      /\ ret.d.success = FALSE
      /\ ret.d.message = message

\* C20 as claimed: MemoryBackend.has_prefix(prefix) is true iff the name
\* provider returns a non-null mapping for the prefix; a prefix whose name
\* mapping exists but is empty is present, and lookup on an identifier of
\* such a prefix fails with "could not look up identifier" rather than with
\* the missing-prefix message.
C20_Original ==
    /\ C20_HasPrefix
    /\ \A p \in DataPrefixes, i \in Ids :
         C20_Failure(p, i, "could not look up identifier")

\* C20 (amended): the same, with the message "Could not look up identifier".
C20_EmptyMappingIsPresent ==
    /\ C20_HasPrefix
    /\ \A p \in DataPrefixes, i \in Ids :
         C20_Failure(p, i, "Could not look up identifier")

\* a lazy MemoryBackend whose name provider gives an empty mapping for hgnc
\* looked up hgnc:1
C20_Witness ==
    /\ variant = "lazy"
    /\ EmptyNames("hgnc")
    /\ LookedUp("hgnc", "1")
    /\ ret.t = "dict"
    /\ ret.d.message = "Could not look up identifier"


-----------------------------------------------------------------------------
(* Claims about summaries and counts of a loaded dataset *)

\* the backend was loaded eagerly: a MemoryBackend over materialized
\* mappings, or a RawSQLBackend over loaded tables
Eager == variant \in {"eager", "sql"}

\* the attribute fixture the tables of the RawSQLBackend were loaded from
StoredFixture == IF db.xrefs = <<>> THEN "none" ELSE "full"

\* the identifiers with a record of kind attr under prefix p in the dataset
\* the backend was loaded with
C21_Stored(attr, p) ==
    IF variant = "eager"
    THEN LET m == CASE attr = "names"       -> mem.get_id_name_mapping
                    [] attr = "alts"        -> mem.get_alts_to_id
                    [] attr = "definitions" -> mem.get_id_definition_mapping
                    [] attr = "species"     -> mem.get_id_species_mapping
         IN IF p \in DOMAIN m THEN DOMAIN m[p] ELSE {}
    ELSE CASE attr = "names" ->
                { r.identifier : r \in { x \in db.derived : x.prefix = p } }
           [] attr = "alts" ->
                { r.alt : r \in { x \in db.alts : x.prefix = p } }
           [] attr = "definitions" -> DOMAIN DataDefs(StoredFixture, FALSE)[p]
           [] attr = "species"     -> DOMAIN DataSpecies(StoredFixture)[p]

\* prefix -> number of identifiers with a record, for the prefixes with one
C21_Summary(attr) ==
    [ p \in { q \in DataPrefixes : C21_Stored(attr, q) # {} } |->
        Cardinality(C21_Stored(attr, p)) ]

\* C21: on a backend loaded eagerly with a dataset, summarize_names, alts,
\* definitions and species map each prefix to the number of distinct
\* identifiers stored for the attribute under the prefix, a prefix without
\* such a record is absent, and count_* is the total number of the records.
C21_SummaryCountsStored ==
    \A attr \in {"names", "alts", "definitions", "species"} :
      /\ Eager /\ pc = "done" /\ call.op = "summarize" /\ call.attr = attr =>
           /\ outcome = "returned"
           /\ ret = PyDict(C21_Summary(attr))
      /\ Eager /\ pc = "done" /\ call.op = "count" /\ call.attr = attr =>
           /\ outcome = "returned"
           /\ ret = PyInt(SumValues(C21_Summary(attr)))


-----------------------------------------------------------------------------
(* Claims about the primitive getters *)

\* the getters that return an optional string
OptionalGetters == {"get_name", "get_definition", "get_species"}

\* the backend stores a value of the getter's attribute for (p, i) itself
HasRecord(op, p, i) ==
    CASE Class = "MemoryBackend" ->
           LET m == CASE op = "get_name"       -> mem.get_id_name_mapping
                      [] op = "get_definition" -> mem.get_id_definition_mapping
                      [] op = "get_species"    -> mem.get_id_species_mapping
           IN p \in DOMAIN m /\ i \in DOMAIN m[p]
      [] Class = "RawSQLBackend" ->
           \E r \in db.derived :
             /\ r.prefix = p
             /\ r.identifier = i
             /\ op = "get_definition" => r.definition # None
             /\ op = "get_species" => r.species # None
      [] OTHER -> FALSE

C23_Row(column, p, i) ==
    IF \E r \in db.derived : r.prefix = p /\ r.identifier = i
    THEN (CHOOSE r \in db.derived : r.prefix = p /\ r.identifier = i)[column]
    ELSE None

\* the column a getter reads
C23_Column(op) == IF op = "get_name" THEN "name" ELSE "definition"

-----------------------------------------------------------------------------
(* Claims about the steps of one lookup *)

\* the positions in the getter calls of the last lookup where op was called
CallsOf(op) == { k \in DOMAIN getters : getters[k].op = op }

\* a is stored as an alternate id of b, b as an alternate id of another id,
\* and neither a nor b has a name
C24_Chain(a, b) ==
    /\ IsAlt("go", a)
    /\ PrimaryOf("go", a) = b
    /\ IsAlt("go", b)
    /\ ~HasName("go", a)
    /\ ~HasName("go", b)

\* C24: a single lookup invokes get_primary_id at most once and get_name at
\* most twice; when alt a maps to b and b, without a name, is itself only an
\* alt of c, lookup("x:a") does not follow the second hop and returns the
\* unknown-identifier failure with identifier b.
C24_SingleHop ==
    /\ pc = "done" /\ call.op = "lookup" =>
         /\ Cardinality(CallsOf("get_primary_id")) <= 1
         /\ Cardinality(CallsOf("get_name")) <= 2
    /\ \A a, b \in Ids :
         Local /\ LookedUp("go", a) /\ call.resolve_alternate /\ HoldsPrefix("go")
               /\ C24_Chain(a, b) =>
           /\ outcome = "returned"
           /\ ret.t = "dict"
           /\ ret.d.success = FALSE
           /\ ret.d.identifier = b
           /\ "name" \notin DOMAIN ret.d
           /\ getters[Len(getters)] = G("get_name", "go", b)

\* a lookup of go:1, where 1 is an alternate id of 2 and 2 one of 3, which
\* has a name, ended after the second get_name
C24_Witness ==
    /\ Local
    /\ LookedUp("go", "1")
    /\ call.resolve_alternate
    /\ C24_Chain("1", "2")
    /\ PrimaryOf("go", "2") = "3"
    /\ HasName("go", "3")
    /\ Cardinality(CallsOf("get_name")) = 2
    /\ ret.d.identifier = "2"


\* C25: every result of Backend.lookup that carries providers, success or
\* failure, carries get_providers of the prefix and the identifier of that
\* same result: after an alternate-id redirection the providers are those
\* of the redirected identifier, never those of the alternate id.
C25_ProvidersOfResult ==
    Local /\ pc = "done" /\ call.op = "lookup" /\ outcome = "returned" =>
      /\ ret.t = "dict"
      /\ "providers" \in DOMAIN ret.d =>
           ret.d.providers = get_providers(ret.d.prefix, ret.d.identifier)

\* a lookup of an alternate id was redirected and succeeded
C25_Witness ==
    \E a \in Ids :
      /\ Local
      /\ LookedUp("go", a)
      /\ outcome = "returned"
      /\ ret.d.success = TRUE
      /\ ret.d.identifier # a
      /\ ret.d.providers = get_providers("go", PrimaryOf("go", a))
      /\ ret.d.providers # get_providers("go", a)


-----------------------------------------------------------------------------
(* Claims about count_all *)

\* count_all has returned on the instance
Warmed(self) == HasReturned(self, "count_all", <<>>)

\* C26: count_all() invokes every counter (count_prefixes, count_names,
\* count_alts, count_definitions, count_species, count_synonyms, count_xrefs,
\* count_rels) and raises nothing of its own; on a RawSQLBackend, once
\* count_all() has returned, every later count_* call on that instance is
\* answered from the cache without a SQL statement.
C26_WarmedByCountAll ==
    LET t == WarmCaller
    IN /\ thread[t].op = "count_all" /\ thread[t].pc = "done" =>
            IF thread[t].outcome = "returned"
            THEN \A k \in DOMAIN count_all_calls :
                   HasReturned(thread[t].self, "count", <<count_all_calls[k]>>)
            ELSE /\ thread[t].ret = PyExc("OperationalError")
                 /\ thread[t].sql # <<>>
       /\ thread[t].op = "count" /\ thread[t].pc # "idle" /\ Warmed(thread[t].self) =>
            /\ thread[t].pc = "done"
            /\ thread[t].outcome = "returned"
            /\ thread[t].sql = <<>>


\* the getters that fetch the attributes of a found entity
AttributeGetters ==
    {"get_definition", "get_species", "get_synonyms", "get_xrefs", "get_rels"}

\* the identifier the CURIE of the last lookup parses to
ParsedId == parse_curie(call.curie)[2]

\* the prefix the CURIE of the last lookup parses to
ParsedPrefix == parse_curie(call.curie)[1]

\* C27: within one lookup, has_prefix is evaluated before any getter;
\* get_primary_id is called only if the first get_name returned absent and
\* resolve_alternate is true; get_definition, get_species, get_synonyms,
\* get_xrefs and get_rels are called only after a name was found, and with
\* the final (possibly redirected) identifier.  With resolve_alternate
\* false, or when the original identifier has a name, get_primary_id is
\* never called and the result's identifier is the parsed identifier.
C27_StepsInOrder ==
    Local /\ pc = "done" /\ call.op = "lookup" /\ getters # <<>> =>
      /\ outcome = "returned"
      /\ getters[1] = G("has_prefix", ParsedPrefix, None)
      /\ CallsOf("has_prefix") = {1}
      /\ \A k \in CallsOf("get_primary_id") :
           /\ k = 3
           /\ getters[2] = G("get_name", ParsedPrefix, ParsedId)
           /\ getters[3] = G("get_primary_id", ParsedPrefix, ParsedId)
           /\ ~HasName(ParsedPrefix, ParsedId)
           /\ call.resolve_alternate
      /\ \A k \in DOMAIN getters :
           getters[k].op \in AttributeGetters =>
             /\ ret.d.success = TRUE
             /\ HasName(ParsedPrefix, ret.d.identifier)
             /\ getters[k].prefix = ParsedPrefix
             /\ getters[k].identifier = ret.d.identifier
             /\ \E j \in 1..(k - 1) :
                  /\ getters[j] = G("get_name", ParsedPrefix, ret.d.identifier)
                  /\ \A n \in CallsOf("get_name") \cup CallsOf("get_primary_id") : n <= j
      /\ Len(getters) >= 2 /\ (~call.resolve_alternate \/ HasName(ParsedPrefix, ParsedId)) =>
           /\ CallsOf("get_primary_id") = {}
           /\ ret.d.identifier = ParsedId

\* a lookup of an alternate id asked for the primary id, found its name and
\* fetched the attributes of the primary id
C27_Witness ==
    \E a \in Ids :
      /\ Local
      /\ LookedUp("go", a)
      /\ CallsOf("get_primary_id") = {3}
      /\ Len(getters) = 9
      /\ ret.d.identifier # a
      /\ getters[5] = G("get_definition", "go", PrimaryOf("go", a))


-----------------------------------------------------------------------------
(* Claims about the shape of a lookup result *)

\* the fields that hold the attributes of a found entity
AttributeFields == {"definition", "species", "synonyms", "xrefs", "relations"}

\* C28: every result returned by Backend.lookup has a query field equal to
\* the input string and a boolean success field; success is true if and
\* only if a name field is present, a message field is present if and only
\* if success is false, and the attribute fields (definition, species,
\* synonyms, xrefs, relations) appear only in results with success true.
C28_ResultShape ==
    Local /\ pc = "done" /\ call.op = "lookup" /\ outcome = "returned" =>
      /\ ret.t = "dict"
      /\ {"query", "success"} \subseteq DOMAIN ret.d
      /\ ret.d.query = call.curie
      /\ ret.d.success \in BOOLEAN
      /\ ret.d.success <=> "name" \in DOMAIN ret.d
      /\ "message" \in DOMAIN ret.d <=> ~ret.d.success
      /\ DOMAIN ret.d \cap AttributeFields # {} => ret.d.success

\* a MemoryBackend without the prefix doid answered a lookup of doid:1
C28_Witness ==
    /\ InMemory
    /\ LookedUp("doid", "1")
    /\ outcome = "returned"
    /\ ret.d.success = FALSE
    /\ "message" \in DOMAIN ret.d
    /\ "name" \notin DOMAIN ret.d
    /\ ret.d.query = <<"doid", ":", "1">>


-----------------------------------------------------------------------------
(* Claims about the summaries of a lazy MemoryBackend *)

\* the attribute kinds a MemoryBackend has a summary function for
SummarizedKinds == {"names", "alts", "definitions", "species", "synonyms"}

\* C29: a MemoryBackend built in lazy mode returns an empty mapping from
\* summarize_names, alts, definitions, species and synonyms and 0 from the
\* matching count_* and from count_prefixes, at every point of its life and
\* whatever its providers hold and have served: summaries never reflect
\* lazily fetched data.
C29_LazySummariesEmpty ==
    variant = "lazy" /\ pc = "done" =>
      /\ call.op = "summarize" /\ call.attr \in SummarizedKinds =>
           /\ outcome = "returned"
           /\ ret = PyDict(EmptyMap)
      /\ call.op = "count" /\ call.attr \in SummarizedKinds \cup {"prefixes"} =>
           /\ outcome = "returned"
           /\ ret = PyInt(0)

\* a lazy MemoryBackend whose name provider serves names of go counted its
\* names
C29_Witness ==
    /\ variant = "lazy"
    /\ HasName("go", "1")
    /\ HasName("go", "2")
    /\ pc = "done"
    /\ call = [op |-> "count", attr |-> "names"]
    /\ ret = PyInt(0)


-----------------------------------------------------------------------------
(* Claims about the default backend of api.lookup *)

\* the backends _get_default_backend has returned so far for the value
SelectedFor(remote_fallback) ==
    { c.backend : c \in { d \in selected :
                            /\ d.remote_fallback = remote_fallback
                            /\ d.backend # NoBackend } }

\* C30: api.lookup takes its backend from _get_default_backend: when no
\* choice is cached for the remote_fallback value, a RawSQLBackend if a
\* sqlalchemy_uri is configured, otherwise a RemoteBackend if
\* remote_fallback is true, otherwise RuntimeError is raised; a chosen
\* backend is cached under the remote_fallback value, so every call with
\* the same value gets the same instance and the two values get different
\* instances; a RuntimeError leaves the cache as it was
C30_DefaultBackendByPrecedence ==
    /\ api.pc = "done" =>
         /\ ~api.hit =>
              /\ api.uri # None => api.backend.class = "RawSQLBackend"
              /\ (api.uri = None /\ api.remote_fallback) =>
                     api.backend.class = "RemoteBackend"
              /\ (api.uri = None /\ ~api.remote_fallback) =>
                     /\ api.backend = NoBackend
                     /\ api.outcome = "raised"
                     /\ api.exc = "RuntimeError"
         /\ api.exc = "RuntimeError" =>
              <<api.remote_fallback>> \notin CacheKeys(default_backend)
         /\ api.backend # NoBackend =>
              /\ <<api.remote_fallback>> \in CacheKeys(default_backend)
              /\ CacheEntry(default_backend, <<api.remote_fallback>>).value
                     = api.backend
    /\ \A remote_fallback \in BOOLEAN :
         Cardinality(SelectedFor(remote_fallback)) <= 1
    /\ \A a \in SelectedFor(TRUE), b \in SelectedFor(FALSE) : a.id # b.id
    /\ \A k \in DOMAIN default_backend :
         default_backend[k].value # NoBackend

\* a call without remote fallback failed while no uri was configured; a
\* later one chose a RawSQLBackend, and this one gets it from the cache,
\* while the calls with remote fallback have their own RemoteBackend
C30_Witness ==
    /\ api.pc = "done"
    /\ api.hit
    /\ ~api.remote_fallback
    /\ api.backend.class = "RawSQLBackend"
    /\ [ remote_fallback |-> FALSE, backend |-> NoBackend ] \in selected
    /\ \E b \in SelectedFor(TRUE) : b.class = "RemoteBackend"

====
